---- MODULE Spec2Model ----
(***************************************************************************)
(* A model of the Sensory application core: the publish/subscribe EventBus *)
(* (js/core/event-bus.js) and the application StateMachine                 *)
(* (preview/feature-restructure/js/core/state-machine.js) that announces   *)
(* its transitions on that bus and persists the current state through the  *)
(* SettingsManager.                                                        *)
(*                                                                         *)
(* JavaScript is single threaded and emit() dispatches synchronously, so a *)
(* handler may call back into the bus or the state machine while an emit   *)
(* is still iterating.  The model keeps the call stack of the emits in     *)
(* progress: one frame per emit, holding the iteration cursor of           *)
(* Set.prototype.forEach and the code that remains to run in the caller    *)
(* once the emit returns.  A step of the model runs the program up to the  *)
(* next handler invocation.                                                *)
(*                                                                         *)
(* Date.now() timestamps and console logging are not modelled.             *)
(***************************************************************************)
EXTENDS Integers, Sequences, FiniteSets, TLC

VARIABLES
    subscribers,    \* EventBus.subscribers: Map eventName -> Set (insertion ordered)
    stats,          \* EventBus.stats
    stack,          \* the emits in progress, innermost last
    currentState,   \* StateMachine.currentState
    previousState,  \* StateMachine.previousState
    stateData,      \* StateMachine.stateData
    stateHistory,   \* StateMachine.stateHistory
    settings,       \* SettingsManager.settings.app.currentState
    log,            \* what the operation in progress has done so far, in order
    rets,           \* the transition()/forceState() calls that returned in the last step
    dones,          \* the emit() calls that returned in the last step
    nextId,         \* number of state machine calls made by the operation in progress
    gone,           \* the (event, callback) pairs whose callback unsubscribed itself
                    \* while it was running and has not been subscribed since
    recorded,       \* every entry recordStateTransition was given, oldest first
    fired,          \* times the callback given to once() ran since once() was called
    detector,       \* the fields of the BrowserAudioDetector
    intervals,      \* the ids of the setInterval timers that are set
    starts,         \* the start() calls of the detector suspended at an await
    clock,          \* the time the clock shows (new Date().getTime(), performance.now())
    stopped,        \* stop() has returned and start() has not been called since
    processor,      \* the fields of the AudioProcessor
    timers,         \* the callbacks of setTimeout and requestAnimationFrame not yet run
    used,           \* how many ticks, start(), stop() and other calls the run has made
    ops             \* number of operations called from the top level so far

vars == <<subscribers, stats, stack, currentState, previousState, stateData,
          stateHistory, settings, log, rets, dones, nextId, gone, recorded, fired,
          detector, intervals, starts, clock, stopped, processor, timers, used, ops>>

-----------------------------------------------------------------------------
(* Bounds of the model *)

MaxOps == 5
MaxDepth == 3
MaxSubs == 2
MaxCalls == 2
MaxHistoryCalls == 22
MaxClock == 4
MaxTicks == 5
MaxStarts == 1
MaxStops == 2
MaxAttempts == 2
MaxSamples == 6
MaxBuffer == 2
CooldownTime == 1
CalibrationDuration == 2

-----------------------------------------------------------------------------
(* state-machine.js: AppStates and the transition table *)

INITIALIZING == "initializing"
READY == "ready"
RUNNING == "running"
CALIBRATING == "calibrating"
PAUSED == "paused"
ERROR == "error"

AppStates == {INITIALIZING, READY, RUNNING, CALIBRATING, PAUSED, ERROR}

Null == "null"
Unset == "unset"

\* (mutant) nothing leads out of Error
validTransitionsTrap ==
    [s \in AppStates |->
        CASE s = INITIALIZING -> {READY, ERROR}
          [] s = READY        -> {RUNNING, CALIBRATING, ERROR}
          [] s = RUNNING      -> {PAUSED, READY, ERROR}
          [] s = CALIBRATING  -> {READY, RUNNING, ERROR}
          [] s = PAUSED       -> {RUNNING, READY, ERROR}
          [] s = ERROR        -> {}]

\* const validTransitions (lines 18-25)
validTransitions ==
    [s \in AppStates |->
        CASE s = INITIALIZING -> {READY, ERROR}
          [] s = READY        -> {RUNNING, CALIBRATING, ERROR}
          [] s = RUNNING      -> {PAUSED, READY, ERROR}
          [] s = CALIBRATING  -> {READY, RUNNING, ERROR}
          [] s = PAUSED       -> {RUNNING, READY, ERROR}
          [] s = ERROR        -> {INITIALIZING, READY}]

maxHistoryLength == 20

-----------------------------------------------------------------------------
(* Event names and callbacks *)

SoundDetected == "sound-detected"
StateChanged == "state-changed"
StateForced == "state-forced"
StateTransitionInvalid == "state-transition-invalid"

AudioSetupCompleted == "audio-setup-completed"
AudioError == "audio-error"
MicrophonePermissionRequesting == "microphone-permission-requesting"
MicrophonePermissionBlocked == "microphone-permission-blocked"
MicrophonePermissionGranted == "microphone-permission-granted"
AudioStreamConnected == "audio-stream-connected"
AudioCalibrationStarted == "audio-calibration-started"
AudioCalibrationProgress == "audio-calibration-progress"
AudioCalibrationCompleted == "audio-calibration-completed"
AudioCalibrationFailed == "audio-calibration-failed"
AudioDetectorStarted == "audio-detector-started"
AudioDetectorStopped == "audio-detector-stopped"
AudioThresholdChanged == "audio-threshold-changed"
VolumeUpdated == "volume-updated"
\* events the AudioProcessor publishes besides
AudioProcessorInitialized == "audio-processor-initialized"
AudioProcessorError == "audio-processor-error"
AudioCaptureStarted == "audio-capture-started"
AudioCaptureStopped == "audio-capture-stopped"

BusEvents == {SoundDetected}
StartButtonClicked == "start-button-clicked"
StopButtonClicked == "stop-button-clicked"
ButtonEvents == {StartButtonClicked, StopButtonClicked}
ProcessorEvents ==
    {AudioProcessorInitialized, AudioProcessorError, AudioCaptureStarted,
     AudioCaptureStopped, AudioCalibrationFailed}
MachineEvents == {StateChanged, StateForced, StateTransitionInvalid}
DetectorEvents ==
    {AudioSetupCompleted, AudioError, MicrophonePermissionRequesting,
     MicrophonePermissionBlocked, MicrophonePermissionGranted, AudioStreamConnected,
     AudioCalibrationStarted, AudioCalibrationProgress, AudioCalibrationCompleted,
     AudioDetectorStarted, AudioDetectorStopped, AudioThresholdChanged, VolumeUpdated,
     SoundDetected}

\* The callbacks of the model.  Each is a function object of the program's
\* environment; its name says what its body does when it is invoked.
Plain == "plain"            \* returns at once
Thrower == "thrower"        \* throws
OffSelf == "offSelf"        \* eventBus.off(event, itself), then finishes its work
OffPlain == "offPlain"      \* eventBus.off(event, plain)
OnPlain == "onPlain"        \* eventBus.on(event, plain)
GoReady == "goReady"        \* stateMachine.transition(READY)
GoRunning == "goRunning"    \* stateMachine.transition(RUNNING)
OnceReEmit == "onceReEmit"  \* the onceWrapper of a callback that emits the event again
SetsThreshold == "setsThreshold"   \* detector.setThreshold(0)
OnStartClicked == "onStartClicked" \* the listener of start-button-clicked
OnStopClicked == "onStopClicked"   \* the listener of stop-button-clicked

BusCallbacks == {Plain, Thrower, OffSelf, OffPlain, OnPlain}
MachineCallbacks == {Plain, GoReady, GoRunning}
OnceCallbacks == {Plain, Thrower, OnceReEmit}
ButtonCallbacks == {OnStartClicked, OnStopClicked}
AllCallbacks ==
    BusCallbacks \cup MachineCallbacks \cup OnceCallbacks \cup {SetsThreshold}
        \cup ButtonCallbacks

\* the subscriptions the model makes to the state machine's events
MachineSubscriptions ==
    {<<StateChanged, Plain>>, <<StateChanged, GoRunning>>, <<StateForced, GoRunning>>,
     <<StateTransitionInvalid, Plain>>, <<StateTransitionInvalid, GoReady>>}

NoReason == <<"", "">>
\* the (data, reason) arguments the model calls transition() with
Args == {<<"d0", "">>, <<"d1", "user">>}
NoData == "-"

\* `FORCED: ${reason}`
ForcedReason(reason) == <<"FORCED: ", reason[2]>>

-----------------------------------------------------------------------------
(* Instructions: the calls a piece of code still has to make *)

Snap0 == [cur |-> "", prev |-> "", data |-> NoData, hist |-> <<>>, persisted |-> ""]

Instr0 == [op |-> "nop", ev |-> "", h |-> "", self |-> FALSE, src |-> "", s |-> "",
           data |-> NoData, reason |-> NoReason, id |-> 0, val |-> FALSE,
           call |-> "", old |-> Snap0, rms |-> 0, relativeVolume |-> 0, volumeChange |-> 0,
           intensity |-> 0]

IOn(ev, h) == [Instr0 EXCEPT !.op = "on", !.ev = ev, !.h = h]
IOff(ev, h, self) == [Instr0 EXCEPT !.op = "off", !.ev = ev, !.h = h, !.self = self]
IThrow == [Instr0 EXCEPT !.op = "throw"]
IRan(ev, h) == [Instr0 EXCEPT !.op = "ran", !.ev = ev, !.h = h]
IEmit(ev) == [Instr0 EXCEPT !.op = "emit", !.ev = ev]
IOnce(ev, h) == [Instr0 EXCEPT !.op = "once", !.ev = ev, !.h = h]
ICallback(ev, h) == [Instr0 EXCEPT !.op = "callback", !.ev = ev, !.h = h]
ITransition(s, data, reason) ==
    [Instr0 EXCEPT !.op = "transition", !.s = s, !.data = data, !.reason = reason]
IForceState(s, data, reason) ==
    [Instr0 EXCEPT !.op = "forceState", !.s = s, !.data = data, !.reason = reason]

\* (mutant) the wrapper calls the callback first and unsubscribes afterwards
onceWrapperCallsFirst(ev, w, cb) == <<ICallback(ev, w)>> \o cb \o <<IOff(ev, w, TRUE)>>

\* once (lines 96-99): this.off(eventName, onceWrapper); callback(...args)
onceWrapper(ev, w, cb) == <<IOff(ev, w, TRUE), ICallback(ev, w)>> \o cb

\* sketch.start() and sketch.stop()
sketchStart == <<ITransition(RUNNING, NoData, NoReason)>>
sketchStop == <<ITransition(READY, NoData, NoReason)>>

\* callback(data): the body of each callback, invoked for event ev
Body(h, ev) ==
    CASE h = Plain     -> <<>>
      [] h = Thrower   -> <<IThrow>>
      [] h = OffSelf   -> <<IOff(ev, h, TRUE), IRan(ev, h)>>
      [] h = OffPlain  -> <<IOff(ev, Plain, FALSE)>>
      [] h = OnPlain   -> <<IOn(ev, Plain)>>
      [] h = GoReady   -> <<ITransition(READY, NoData, NoReason)>>
      [] h = GoRunning -> <<ITransition(RUNNING, NoData, NoReason)>>
      [] h = OnceReEmit -> onceWrapper(ev, h, <<IEmit(ev)>>)
      [] h = SetsThreshold -> <<[Instr0 EXCEPT !.op = "setThreshold", !.rms = 0]>>
      [] h = OnStartClicked -> <<ITransition(RUNNING, NoData, NoReason)>> \o sketchStart
      [] h = OnStopClicked -> <<ITransition(READY, NoData, NoReason)>> \o sketchStop

-----------------------------------------------------------------------------
(* The program state as one record, so that code can be run as a function *)

St ==
    [subs |-> subscribers, stats |-> stats, stack |-> stack,
     cur |-> currentState, prev |-> previousState, data |-> stateData,
     hist |-> stateHistory, persisted |-> settings,
     log |-> log, rets |-> rets, dones |-> dones, nextId |-> nextId,
     gone |-> gone, recorded |-> recorded, fired |-> fired,
     det |-> detector, intervals |-> intervals, starts |-> starts, clock |-> clock,
     stopped |-> stopped, proc |-> processor, timers |-> timers, used |-> used]

Becomes(S) ==
    /\ subscribers' = S.subs
    /\ stats' = S.stats
    /\ stack' = S.stack
    /\ currentState' = S.cur
    /\ previousState' = S.prev
    /\ stateData' = S.data
    /\ stateHistory' = S.hist
    /\ settings' = S.persisted
    /\ log' = S.log
    /\ rets' = S.rets
    /\ dones' = S.dones
    /\ nextId' = S.nextId
    /\ gone' = S.gone
    /\ recorded' = S.recorded
    /\ fired' = S.fired
    /\ detector' = S.det
    /\ intervals' = S.intervals
    /\ starts' = S.starts
    /\ clock' = S.clock
    /\ stopped' = S.stopped
    /\ processor' = S.proc
    /\ timers' = S.timers
    /\ used' = S.used

\* the detection configuration and the trigger state a tick finds when it begins
NoConfig ==
    [threshold |-> 0, cooldownTime |-> 0, lastTriggerTime |-> 0, prevVolume |-> 0,
     now |-> 0]

Entry0 == [kind |-> "", id |-> 0, call |-> "", ev |-> "", from |-> "", to |-> "",
           data |-> NoData, reason |-> NoReason, intensity |-> 0, config |-> NoConfig,
           value |-> 0]

\* an entry of the log for something other than the bus and the state machine did
Did(kind, call, what) == [Entry0 EXCEPT !.kind = kind, !.call = call, !.to = what]

Logged(S, e) == [S EXCEPT !.log = Append(@, e)]

IndexOf(q, h) ==
    IF \E i \in 1..Len(q) : q[i] = h
    THEN CHOOSE i \in 1..Len(q) : q[i] = h
    ELSE 0

Without(q, p) == SubSeq(q, 1, p - 1) \o SubSeq(q, p + 1, Len(q))

Range(q) == {q[i] : i \in 1..Len(q)}

Max(a, b) == IF a >= b THEN a ELSE b

Has(S, ev) == ev \in DOMAIN S.subs

-----------------------------------------------------------------------------
(* event-bus.js: EventBus *)

\* (mutant) an array of callbacks: push() keeps every subscription
SetAddAlways(q, h) == Append(q, h)

\* subscribers.add(callback): a Set keeps one entry per callback, in insertion order
SetAdd(q, h) == IF h \in Range(q) THEN q ELSE Append(q, h)

\* stats.activeSubscriptions++ (on, line 73)
CountSubscription(n) == n + 1

\* (mutant) the cursor stays where it was, as an index into an array would
CursorKept(idx, p) == idx

\* Set.prototype.forEach keeps its place when an entry is deleted: the cursor of
\* an iteration in progress moves back when an entry before it goes away.
CursorAfterDelete(idx, p) == IF p <= idx THEN idx - 1 ELSE idx

\* on(eventName, callback)
on(S, ev, h) ==
    LET q0 == IF Has(S, ev) THEN S.subs[ev] ELSE <<>>
        q1 == SetAdd(q0, h)
        added == h \notin Range(q0)
        subs1 == [e \in DOMAIN S.subs \cup {ev} |-> IF e = ev THEN q1 ELSE S.subs[e]]
        stack1 == [i \in DOMAIN S.stack |->
                     LET f == S.stack[i] IN
                     IF f.ev = ev /\ ~f.detached
                     THEN [f EXCEPT !.mutated = @ \/ added, !.pre = @ \ {h}]
                     ELSE f]
    IN [S EXCEPT !.subs = subs1,
                 !.stats.activeSubscriptions = CountSubscription(@),
                 !.stats.peakListenerCount = Max(@, Len(q1)),
                 !.stack = stack1,
                 !.gone = @ \ {<<ev, h>>}]

\* subscribers.delete(callback) and the pruning of an empty set (off, lines 119-129)
SetDelete(q, p) == Without(q, p)

\* off(eventName, callback); self says that the callback running is the one removed
off(S, ev, h, self) ==
    IF ~Has(S, ev) THEN S
    ELSE
      LET q0 == S.subs[ev]
          p == IndexOf(q0, h)
          q1 == SetDelete(q0, p)
          top == Len(S.stack)
          subs1 == IF q1 = <<>>
                   THEN [e \in DOMAIN S.subs \ {ev} |-> S.subs[e]]
                   ELSE [S.subs EXCEPT ![ev] = q1]
          stack1 == [i \in DOMAIN S.stack |->
                       LET f == S.stack[i] IN
                       IF f.ev = ev /\ ~f.detached
                       THEN [f EXCEPT !.idx = CursorAfterDelete(@, p),
                                      !.detached = (q1 = <<>>),
                                      !.mutated = @ \/ ~(self /\ i = top),
                                      !.selfOff = IF self /\ i = top THEN @ \cup {h} ELSE @]
                       ELSE f]
      IN IF p = 0 THEN S
         ELSE [S EXCEPT !.subs = subs1,
                        !.stats.activeSubscriptions = @ - 1,
                        !.stack = stack1,
                        !.gone = IF self THEN @ \cup {<<ev, h>>} ELSE @]


\* once(eventName, callback): return this.on(eventName, onceWrapper), w the new wrapper
once(S, ev, w) == on([S EXCEPT !.fired = 0], ev, w)

AllEvents ==
    BusEvents \cup MachineEvents \cup DetectorEvents \cup ProcessorEvents \cup ButtonEvents

\* The Set an emit in progress iterates: the live Set of the Map (emit, lines 150
\* and 179), or the emptied Set the Map has dropped since
Subscribers(S, f) == IF f.detached THEN <<>> ELSE S.subs[f.ev]

\* The payload object literal, evaluated when emit is called
Payload(S, i) ==
    [Entry0 EXCEPT !.kind = "emit", !.id = i.id, !.ev = i.ev,
                   !.from = CASE i.src = "currentState" -> S.cur
                              [] i.src = "previousState" -> S.prev
                              [] OTHER -> "",
                   !.to = i.s, !.data = i.data, !.reason = i.reason,
                   !.intensity = i.intensity]

\* (mutant) an emit without subscribers returns before the counters
emitUncounted(S, i) ==
    IF Has(S, i.ev)
    THEN Logged([S EXCEPT !.stats.totalEvents = @ + 1,
                          !.stats.eventCounts[i.ev] = @ + 1],
                Payload(S, i))
    ELSE Logged(S, Payload(S, i))

\* emit(eventName, data) up to the forEach: the counters (lines 153-154)
emit(S, i) ==
    Logged([S EXCEPT !.stats.totalEvents = @ + 1,
                     !.stats.eventCounts[i.ev] = @ + 1],
           Payload(S, i))

Done0 == [ev |-> "", snap |-> <<>>, invoked |-> <<>>, threw |-> FALSE,
          mutated |-> FALSE, selfOff |-> {}, pre |-> {}]

Frame0 == [ev |-> "", idx |-> 0, detached |-> FALSE, snap |-> <<>>, invoked |-> <<>>,
           threw |-> FALSE, mutated |-> FALSE, selfOff |-> {}, pre |-> {}, k |-> <<>>,
           data |-> Entry0]

DoneOf(f) == [ev |-> f.ev, snap |-> f.snap, invoked |-> f.invoked, threw |-> f.threw,
              mutated |-> f.mutated, selfOff |-> f.selfOff, pre |-> f.pre]

\* emit with subscribers: the forEach begins (line 179); k is the caller's code after
\* emit, and data the payload, which emit has just logged
Push(S, ev, k) ==
    [S EXCEPT !.stack = Append(@,
        [Frame0 EXCEPT !.ev = ev, !.snap = S.subs[ev], !.k = k,
                       !.data = S.log[Len(S.log)],
                       !.pre = {h \in AllCallbacks : <<ev, h>> \in S.gone}])]

\* emit without subscribers returns at once (lines 170-172)
ReturnedEmpty(S, ev) == [S EXCEPT !.dones = Append(@, [Done0 EXCEPT !.ev = ev])]

\* (mutant) the exception leaves forEach and is caught by the outer try only
CaughtOutside(S) ==
    [S EXCEPT !.stack[Len(S.stack)].threw = TRUE, !.stack[Len(S.stack)].detached = TRUE]

\* catch (err) inside forEach (lines 182-186): logged, the iteration goes on
Caught(S) == [S EXCEPT !.stack[Len(S.stack)].threw = TRUE]

-----------------------------------------------------------------------------
(* state-machine.js: StateMachine; app-config: SettingsManager.set *)

Snapshot(S) == [cur |-> S.cur, prev |-> S.prev, data |-> S.data, hist |-> S.hist,
                persisted |-> S.persisted]

\* (mutant) any known state is accepted, the table is not consulted
canTransitionToAnyState(cur, state) == state \in AppStates

\* canTransitionTo(state)
canTransitionTo(cur, state) ==
    /\ cur \in DOMAIN validTransitions
    /\ state \in validTransitions[cur]

\* (mutant) the newest entry is dropped instead of the oldest: pop() for shift()
TrimmedNewest(h) == IF Len(h) > maxHistoryLength THEN SubSeq(h, 1, Len(h) - 1) ELSE h

\* stateHistory.shift() when the history got too long (lines 170-172)
Trimmed(h) == IF Len(h) > maxHistoryLength THEN Tail(h) ELSE h

\* recordStateTransition(fromState, toState, metadata)
recordStateTransition(S, from, to, reason, data) ==
    LET e == [from |-> from, to |-> to, reason |-> reason, data |-> data]
    IN Logged([S EXCEPT !.hist = Trimmed(Append(@, e)), !.recorded = Append(@, e)],
              [Entry0 EXCEPT !.kind = "hist", !.id = S.nextId, !.from = from, !.to = to,
                             !.reason = reason, !.data = data])

\* (mutant) previousState is not updated
EnterKeepingPrevious(S, call, state, data) ==
    Logged([S EXCEPT !.cur = state, !.data = data],
           [Entry0 EXCEPT !.kind = "state", !.id = S.nextId, !.call = call,
                          !.from = S.cur, !.to = state, !.data = data])

\* this.previousState = this.currentState; this.currentState = newState;
\* this.stateData = {...data}
Enter(S, call, state, data) ==
    Logged([S EXCEPT !.prev = S.cur, !.cur = state, !.data = data],
           [Entry0 EXCEPT !.kind = "state", !.id = S.nextId, !.call = call,
                          !.from = S.cur, !.to = state, !.data = data])

IReturn(i, id, val, old) ==
    [Instr0 EXCEPT !.op = "return", !.call = i.op, !.s = i.s, !.data = i.data,
                   !.reason = i.reason, !.id = id, !.val = val, !.old = old]

ISet(state, id) == [Instr0 EXCEPT !.op = "set", !.s = state, !.id = id]

\* (mutant) a rejected transition() returns false without publishing anything
RejectedSilently(i, id, old) == << IReturn(i, id, FALSE, old) >>

\* the code of transition() after a rejected validation (lines 80-88)
Rejected(i, id, old) ==
    << [IEmit(StateTransitionInvalid) EXCEPT !.src = "currentState", !.s = i.s,
                                             !.reason = i.reason, !.id = id],
       IReturn(i, id, FALSE, old) >>

\* (mutant) the new state is not handed to the settings store
AcceptedUnsaved(i, id, old) ==
    << [IEmit(StateChanged) EXCEPT !.src = "previousState", !.s = i.s, !.data = i.data,
                                   !.reason = i.reason, !.id = id],
       IReturn(i, id, TRUE, old) >>

\* the code of transition() after the state update (lines 102-115)
Accepted(i, id, old) ==
    << [IEmit(StateChanged) EXCEPT !.src = "previousState", !.s = i.s, !.data = i.data,
                                   !.reason = i.reason, !.id = id],
       ISet(i.s, id),
       IReturn(i, id, TRUE, old) >>

\* transition(newState, data, reason): the state and the code that is left to run
transition(S, i) ==
    LET id == S.nextId + 1
        S0 == [S EXCEPT !.nextId = id]
        old == Snapshot(S)
    IN IF ~canTransitionTo(S.cur, i.s)
       THEN [st |-> S0, code |-> Rejected(i, id, old)]
       ELSE LET S1 == Enter(S0, i.op, i.s, i.data)
                S2 == recordStateTransition(S1, S1.prev, i.s, i.reason, i.data)
            IN [st |-> S2, code |-> Accepted(i, id, old)]

\* the code of forceState() after the state update (lines 209-228)
Forced(i, id, old) ==
    << [IEmit(StateForced) EXCEPT !.src = "previousState", !.s = i.s, !.data = i.data,
                                  !.reason = i.reason, !.id = id],
       [IEmit(StateChanged) EXCEPT !.src = "previousState", !.s = i.s, !.data = i.data,
                                   !.reason = ForcedReason(i.reason), !.id = id],
       ISet(i.s, id),
       IReturn(i, id, TRUE, old) >>

\* forceState(state, data, reason)
forceState(S, i) ==
    LET id == S.nextId + 1
        S0 == [S EXCEPT !.nextId = id]
        old == Snapshot(S)
        S1 == Enter(S0, i.op, i.s, i.data)
        S2 == recordStateTransition(S1, S1.prev, i.s, ForcedReason(i.reason), i.data)
    IN [st |-> S2, code |-> Forced(i, id, old)]

\* settingsManager.set('app.currentState', value)
set(S, i) ==
    Logged([S EXCEPT !.persisted = i.s],
           [Entry0 EXCEPT !.kind = "set", !.id = i.id, !.to = i.s])

\* return from transition() or forceState()
Return(S, i) ==
    [S EXCEPT !.rets = Append(@, [call |-> i.call, id |-> i.id, s |-> i.s,
                                  data |-> i.data, reason |-> i.reason, val |-> i.val,
                                  old |-> i.old, at |-> Snapshot(S),
                                  last |-> S.nextId])]

-----------------------------------------------------------------------------
(* browser-audio-detector.js: BrowserAudioDetector                          *)
(*                                                                         *)
(* Volumes, thresholds and the baseline are counted in thousandths (0.05   *)
(* is 50).  The buffer read from the analyser is represented by the rms    *)
(* value computed from it.  The volume history and the smoothed level,     *)
(* which only feed the display, and the audio context's own suspended      *)
(* state are not modelled.                                                 *)

\* the rms values a tick may compute
Volumes == {0, 110, 500}

\* settingsManager.get('audio.threshold', 0.05) (defaultConfig.audio.threshold)
Threshold == 50
\* this.baselineVolume += 0.01 (line 483)
Margin == 10
\* volumeChange > -0.01 (line 554)
Epsilon == 10

Stream == "stream"
Node == "node"

\* new BrowserAudioDetector({cooldownTime: CooldownTime, calibrationDuration: ...})
Detector0 ==
    [threshold |-> Threshold, prevVolume |-> 0, baselineVolume |-> 0,
     calibrating |-> FALSE, calibrationSamples |-> <<>>,
     calibrationDuration |-> CalibrationDuration,
     cooldownTime |-> CooldownTime, lastTriggerTime |-> 0,
     isSetup |-> FALSE, isEnabled |-> FALSE, permissionGranted |-> FALSE,
     mediaStream |-> Null, sourceNode |-> Null, updateInterval |-> 0]

IDo(op) == [Instr0 EXCEPT !.op = op]
IAwait(pc, ok) == [Instr0 EXCEPT !.op = "await", !.s = pc, !.val = ok]
IResult(call, val) == [Instr0 EXCEPT !.op = "result", !.call = call, !.val = val]
IEmitWith(ev, tag) == [IEmit(ev) EXCEPT !.s = tag]

\* Array.prototype.sort((a, b) => a - b)
RECURSIVE sort(_)
sort(q) ==
    IF q = <<>> THEN <<>>
    ELSE LET r == sort(Tail(q))
             x == Head(q)
             n == Cardinality({j \in 1..Len(r) : r[j] <= x})
         IN SubSeq(r, 1, n) \o <<x>> \o SubSeq(r, n + 1, Len(r))

\* (mutant) the lower of the two middle elements when the count is even
MedianLower(q) == sort(q)[((Len(q) - 1) \div 2) + 1]

\* sortedSamples[Math.floor(sortedSamples.length / 2)] (arrays count from 0)
Median(q) == sort(q)[(Len(q) \div 2) + 1]

\* Math.sqrt, rounded down to a whole number
Sqrt(n) ==
    LET RECURSIVE Root(_, _)
        Root(lo, hi) ==
            IF lo = hi THEN lo
            ELSE LET mid == (lo + hi + 1) \div 2
                 IN IF mid * mid <= n THEN Root(mid, hi) ELSE Root(lo, mid - 1)
    IN Root(0, 2000)

\* (mutant) the byte is not recentred on 128
AmplitudeRaw(v) == v

\* (this.dataArray[i] - 128) / 128 (line 462), in units of 1/128
Amplitude(v) == v - 128

\* the RMS of update() (lines 456-466) and of calculateRMSLevel (part_000:560-572):
\* the mean of the squares is in units of 1/16384 and the result in thousandths
\* (1000000 / 16384 = 15625 / 256)
calculateRMSLevel(dataArray) ==
    LET RECURSIVE sumSquares(_)
        sumSquares(q) ==
            IF q = <<>> THEN 0
            ELSE Amplitude(Head(q)) * Amplitude(Head(q)) + sumSquares(Tail(q))
    IN Sqrt(((sumSquares(dataArray) \div Len(dataArray)) * 15625) \div 256)

\* setup(): the audio context and the analyser are created, or the API is missing
setup(S, i) ==
    IF S.det.isSetup THEN [st |-> S, code |-> <<IAwait("setup", TRUE)>>]
    ELSE IF i.val
    THEN [st |-> [S EXCEPT !.det.isSetup = TRUE],
          code |-> <<IEmit(AudioSetupCompleted), IAwait("setup", TRUE)>>]
    ELSE [st |-> S,
          code |-> <<IEmitWith(AudioError, "unsupported"), IAwait("setup", FALSE)>>]

\* start() up to its first await (lines 249-254)
start(S, i) ==
    LET S0 == [S EXCEPT !.stopped = FALSE]
    IN IF ~S.det.isSetup
       THEN [st |-> S0, code |-> <<[IDo("setup") EXCEPT !.val = i.val]>>]
       ELSE [st |-> S0, code |-> <<IDo("proceed")>>]

\* start() from the try block to the permission request (lines 260-277);
\* requestPermissions() up to its first await (lines 194-203)
proceed(S, i) ==
    IF ~S.det.permissionGranted
    THEN [st |-> S, code |-> <<IEmit(MicrophonePermissionRequesting),
                               IAwait("permission", TRUE)>>]
    ELSE [st |-> S, code |-> <<IDo("connect")>>]

\* requestPermissions() after the Permissions API or getUserMedia answered
\* (lines 203-243); i.s is the answer, the result is awaited by start()
requestPermissions(S, i) ==
    CASE i.s = "granted" ->
           [st |-> [S EXCEPT !.det.permissionGranted = TRUE],
            code |-> <<IEmit(MicrophonePermissionGranted), IAwait("permitted", TRUE)>>]
      [] i.s = "stream" ->
           [st |-> [S EXCEPT !.det.mediaStream = Stream, !.det.permissionGranted = TRUE],
            code |-> <<IEmit(MicrophonePermissionGranted), IAwait("permitted", TRUE)>>]
      [] OTHER ->
           [st |-> S,
            code |-> <<IEmit(MicrophonePermissionBlocked), IAwait("permitted", FALSE)>>]

\* start(): the stream is connected or asked for (lines 279-294)
connect(S, i) ==
    IF S.det.mediaStream # Null
    THEN [st |-> S, code |-> <<IDo("connectStream"), IDo("startCalibration"),
                               IDo("startUpdates"), IDo("enable")>>]
    ELSE [st |-> S, code |-> <<IAwait("stream", TRUE)>>]

\* connectStream(stream)
connectStream(S, i) ==
    LET S1 == IF S.det.sourceNode # Null
              THEN Logged(S, Did("cancel", "connectStream", "sourceNode.disconnect"))
              ELSE S
    IN [st |-> [S1 EXCEPT !.det.mediaStream = Stream, !.det.sourceNode = Node],
        code |-> <<IEmit(AudioStreamConnected)>>]

\* startCalibration()
startCalibration(S, i) ==
    [st |-> [S EXCEPT !.det.calibrating = TRUE, !.det.calibrationSamples = <<>>],
     code |-> <<ITransition(CALIBRATING, NoData, NoReason), IEmit(AudioCalibrationStarted)>>]

\* startUpdates(): clearInterval of the interval in use, then setInterval
startUpdates(S, i) ==
    LET old == S.det.updateInterval
        cleared == IF old # 0 THEN [S.intervals EXCEPT ![old] = FALSE] ELSE S.intervals
    IN [st |-> [S EXCEPT !.intervals = Append(cleared, TRUE),
                         !.det.updateInterval = Len(cleared) + 1],
        code |-> <<>>]

\* start(): this.isEnabled = true and the rest (lines 302-305)
enable(S, i) ==
    [st |-> [S EXCEPT !.det.isEnabled = TRUE],
     code |-> <<IEmit(AudioDetectorStarted), IResult("start", TRUE)>>]

\* stop() up to its emit (lines 384-410)
stop(S, i) ==
    LET d == S.det
        S1 == IF d.updateInterval # 0
              THEN Logged([S EXCEPT !.intervals[d.updateInterval] = FALSE,
                                    !.det.updateInterval = 0],
                          Did("cancel", "stop", "clearInterval"))
              ELSE S
        S2 == IF d.mediaStream # Null
              THEN Logged([S1 EXCEPT !.det.mediaStream = Null],
                          Did("cancel", "stop", "track.stop"))
              ELSE S1
        S3 == IF d.sourceNode # Null
              THEN Logged([S2 EXCEPT !.det.sourceNode = Null],
                          Did("cancel", "stop", "sourceNode.disconnect"))
              ELSE S2
    IN [st |-> [S3 EXCEPT !.det.isEnabled = FALSE],
        code |-> <<IEmit(AudioDetectorStopped), IResult("stop", TRUE)>>]

\* (mutant) the lower range ends above the start of the upper one
ScaledSteep(value) ==
    LET scaledValue == IF value < 300
                       THEN 10 + (value * 50) \div 300
                       ELSE 50 + ((value - 300) * 250) \div 700
    IN Max(10, IF scaledValue < 300 THEN scaledValue ELSE 300)

\* the piecewise linear scale of setThreshold (lines 422-431), value in thousandths
Scaled(value) ==
    LET scaledValue == IF value < 300
                       THEN 10 + (value * 40) \div 300
                       ELSE 50 + ((value - 300) * 250) \div 700
    IN Max(10, IF scaledValue < 300 THEN scaledValue ELSE 300)

\* setThreshold(value)
setThreshold(S, i) ==
    [st |-> Logged([S EXCEPT !.det.threshold = Scaled(i.rms)],
                   [Did("set", "setThreshold", "audio.threshold") EXCEPT !.value = i.rms]),
     code |-> <<IEmit(AudioThresholdChanged)>>]

\* (mutant) the session goes on after the target count: the baseline is not set
CompletedNever(samples, duration) == FALSE

\* this.calibrationSamples.length >= this.calibrationDuration (line 476)
Completed(samples, duration) == Len(samples) >= duration

\* (mutant) detection is evaluated on calibration ticks as well
calibrationTickDetects(S, i) ==
    [st |-> S,
     code |-> <<[IDo("detect") EXCEPT !.relativeVolume = Max(0, i.rms - S.det.baselineVolume),
                                      !.volumeChange = Max(0, i.rms - S.det.baselineVolume)
                                                        - S.det.prevVolume]>>]

\* update(): a tick during calibration returns after the progress event (line 511)
calibrationTickReturns(S, i) == [st |-> S, code |-> <<>>]

\* update() during calibration (lines 469-512), i.rms the volume of the tick
calibrate(S, i) ==
    LET samples == Append(S.det.calibrationSamples, i.rms)
        S1 == Logged([S EXCEPT !.det.calibrationSamples = samples],
                     Did("collect", "update", ""))
        rest == calibrationTickReturns(S1, i).code
    IN IF Completed(samples, S.det.calibrationDuration)
       THEN [st |-> Logged([S1 EXCEPT !.det.baselineVolume = Median(samples) + Margin,
                                      !.det.calibrating = FALSE],
                           Did("baseline", "update", "")),
             code |-> (IF S.cur = CALIBRATING
                       THEN <<ITransition(READY, NoData, NoReason)>> ELSE <<>>)
                      \o <<IEmit(AudioCalibrationCompleted), IEmit(AudioCalibrationProgress)>>
                      \o rest]
       ELSE [st |-> S1, code |-> <<IEmit(AudioCalibrationProgress)>> \o rest]

\* the log entry of a tick that reads a sample, with what the tick found
Sampled(S) ==
    [Did("sample", "update", "") EXCEPT
       !.config = [threshold |-> S.det.threshold, cooldownTime |-> S.det.cooldownTime,
                   lastTriggerTime |-> S.det.lastTriggerTime,
                   prevVolume |-> S.det.prevVolume, now |-> S.clock]]

\* (mutant) the baseline follows the volume of the detection ticks
updateAdapts(S, i) ==
    IF ~S.det.isEnabled \/ ~S.det.isSetup THEN [st |-> S, code |-> <<>>]
    ELSE LET S0 == Logged(S, Sampled(S))
         IN IF S.det.calibrating THEN calibrate(S0, i)
            ELSE LET relativeVolume == Max(0, i.rms - S.det.baselineVolume)
                     volumeChange == relativeVolume - S.det.prevVolume
                 IN [st |-> [S0 EXCEPT !.det.prevVolume = relativeVolume,
                                       !.det.baselineVolume = (@ + i.rms) \div 2],
                     code |-> <<IEmit(VolumeUpdated),
                                [IDo("detect") EXCEPT !.relativeVolume = relativeVolume,
                                                      !.volumeChange = volumeChange]>>]

\* update() from the top to the volume-updated event (lines 453-546); i.val says
\* that getByteTimeDomainData throws: nothing in update() or in the callback of
\* setInterval (lines 376-378) catches it
update(S, i) ==
    IF ~S.det.isEnabled \/ ~S.det.isSetup THEN [st |-> S, code |-> <<>>]
    ELSE IF i.val
    THEN [st |-> Logged(S, Did("uncaught", "update", "getByteTimeDomainData")),
          code |-> <<>>]
    ELSE LET S0 == Logged(S, Sampled(S))
         IN IF S.det.calibrating THEN calibrate(S0, i)
            ELSE LET relativeVolume == Max(0, i.rms - S.det.baselineVolume)
                     volumeChange == relativeVolume - S.det.prevVolume
                 IN [st |-> [S0 EXCEPT !.det.prevVolume = relativeVolume],
                     code |-> <<IEmit(VolumeUpdated),
                                [IDo("detect") EXCEPT !.relativeVolume = relativeVolume,
                                                      !.volumeChange = volumeChange]>>]

\* (volumeChange > threshold) || (relativeVolume > threshold * 3 && volumeChange > -0.01)
Qualifies(d, relativeVolume, volumeChange) ==
    \/ volumeChange > d.threshold
    \/ relativeVolume > d.threshold * 3 /\ volumeChange > -Epsilon

\* (mutant) the cooldown is not consulted
OutsideCooldownAlways(now, last, cooldown) == TRUE

\* now - this.lastTriggerTime > this.cooldownTime (line 551)
OutsideCooldown(now, last, cooldown) == now - last > cooldown

\* Math.min(1, relativeVolume / (this.threshold * 5))
Intensity(d, relativeVolume) ==
    LET x == (relativeVolume * 1000) \div (d.threshold * 5)
    IN IF x < 1000 THEN x ELSE 1000

\* update() after the volume-updated event (lines 548-567)
detect(S, i) ==
    LET d == S.det
        now == S.clock
    IN IF /\ OutsideCooldown(now, d.lastTriggerTime, d.cooldownTime)
          /\ Qualifies(d, i.relativeVolume, i.volumeChange)
       THEN [st |-> [S EXCEPT !.det.lastTriggerTime = now],
             code |-> <<[IEmit(SoundDetected) EXCEPT
                            !.intensity = Intensity(d, i.relativeVolume)]>>]
       ELSE [st |-> S, code |-> <<>>]

\* the code of the BrowserAudioDetector named by an instruction
Detector(S, i) ==
    CASE i.op = "start" -> start(S, i)
      [] i.op = "setup" -> setup(S, i)
      [] i.op = "proceed" -> proceed(S, i)
      [] i.op = "requestPermissions" -> requestPermissions(S, i)
      [] i.op = "connect" -> connect(S, i)
      [] i.op = "connectStream" -> connectStream(S, i)
      [] i.op = "startCalibration" -> startCalibration(S, i)
      [] i.op = "startUpdates" -> startUpdates(S, i)
      [] i.op = "enable" -> enable(S, i)
      [] i.op = "stop" -> stop(S, i)
      [] i.op = "setThreshold" -> setThreshold(S, i)
      [] i.op = "update" -> update(S, i)
      [] i.op = "detect" -> detect(S, i)

DetectorOps ==
    {"start", "setup", "proceed", "requestPermissions", "connect", "connectStream",
     "startCalibration", "startUpdates", "enable", "stop", "setThreshold", "update",
     "detect"}

\* await: the call is suspended until the promise is settled
Await(S, i) == [S EXCEPT !.starts = Append(@, [pc |-> i.s, ok |-> i.val])]

\* return from start() or stop()
Result(S, i) ==
    Logged([S EXCEPT !.stopped = IF i.call \in {"stop", "stopCapture"} THEN TRUE ELSE @],
           [Did("return", i.call, "") EXCEPT !.from = IF i.val THEN "true" ELSE "false"])

-----------------------------------------------------------------------------
(* The AudioProcessor (part_000)                                           *)
(*                                                                         *)
(* Volumes are in thousandths as above.  The frequency and time domain     *)
(* buffers are represented by the normalised volume computed from them;    *)
(* the performance metrics and the volume history, which feed the debug    *)
(* display, are not modelled.  setTimeout and requestAnimationFrame        *)
(* callbacks wait in timers and run in any order.                          *)

\* settingsManager.get('audio.threshold', 0.1)
ProcessorThreshold == 100
\* settingsManager.get('audio.autoThresholdTarget', 0.2)
AutoThresholdTarget == 200
\* Math.max(0.05, Math.min(0.5, targetThreshold))
MinThreshold == 50
MaxThreshold == 500

\* the normalised volumes a frame may compute
ProcessorVolumes == {0, 500}

\* new AudioProcessor() with audio.cooldownMs set to CooldownTime
Processor0 ==
    [isInitialized |-> FALSE, isRunning |-> FALSE, microphone |-> Null,
     detectionSettings |-> [threshold |-> ProcessorThreshold, cooldownMs |-> CooldownTime,
                            autoThreshold |-> TRUE,
                            autoThresholdTarget |-> AutoThresholdTarget],
     lastDetectionTime |-> 0, isInCooldown |-> FALSE, baselineNoiseLevel |-> 0,
     calibrationSamples |-> <<>>, calibrationInProgress |-> FALSE]

\* setTimeout(callback) and requestAnimationFrame(callback)
ISetTimer(callback) == [Instr0 EXCEPT !.op = "setTimer", !.s = callback]
SetTimer(S, i) == [S EXCEPT !.timers = Append(@, i.s)]

\* startCapture() up to its first await (lines 333-337)
startCapture(S, i) ==
    LET S0 == [S EXCEPT !.stopped = FALSE]
    IN IF ~S.proc.isInitialized
       THEN [st |-> S0, code |-> <<IAwait("query", i.val)>>]
       ELSE [st |-> S0, code |-> <<IDo("capture")>>]

\* initialize() after navigator.permissions.query answered (lines 234-328);
\* i.val says whether the browser has an AudioContext
initialize(S, i) ==
    IF i.val
    THEN [st |-> [S EXCEPT !.proc.isInitialized = TRUE],
          code |-> <<IEmit(AudioProcessorInitialized), IAwait("initialize", TRUE)>>]
    ELSE [st |-> S,
          code |-> <<IEmitWith(AudioProcessorError, "initialization"),
                     IAwait("initialize", FALSE)>>]

\* startCapture() from the isRunning test to getUserMedia (lines 345-370)
capture(S, i) ==
    IF S.proc.isRunning THEN [st |-> S, code |-> <<IResult("startCapture", TRUE)>>]
    ELSE [st |-> S, code |-> <<IAwait("getUserMedia", TRUE)>>]

\* startCapture() once it has the stream (lines 371-416); i.rms is the volume the
\* first analyse() computes
captured(S, i) ==
    [st |-> [S EXCEPT !.proc.microphone = Node, !.proc.isRunning = TRUE],
     code |-> <<[IDo("analyse") EXCEPT !.rms = i.rms], IEmit(AudioCaptureStarted)>>
              \o (IF S.proc.detectionSettings.autoThreshold
                  THEN <<ISetTimer("startCalibration")>> ELSE <<>>)
              \o <<IResult("startCapture", TRUE)>>]

\* stopCapture()
stopCapture(S, i) ==
    IF ~S.proc.isRunning THEN [st |-> S, code |-> <<IResult("stopCapture", TRUE)>>]
    ELSE LET S1 == IF S.proc.microphone # Null
                   THEN Logged([S EXCEPT !.proc.microphone = Null],
                               Did("cancel", "stopCapture", "microphone.disconnect"))
                   ELSE S
         IN [st |-> [S1 EXCEPT !.proc.isRunning = FALSE],
             code |-> <<IEmit(AudioCaptureStopped), IResult("stopCapture", TRUE)>>]

\* analyse(): one frame of the analysis loop; i.val says that reading the analyser
\* or analysing the data throws, which the catch block handles (lines 541-554)
analyse(S, i) ==
    IF ~S.proc.isRunning THEN [st |-> S, code |-> <<>>]
    ELSE IF i.val
    THEN [st |-> Logged([S EXCEPT !.proc.isRunning = FALSE],
                        Did("caught", "analyse", "getByteFrequencyData")),
          code |-> <<IEmitWith(AudioProcessorError, "analysis")>>]
    ELSE [st |-> Logged(S, Did("sample", "analyse", "")),
          code |-> <<[IDo("detectSound") EXCEPT !.rms = i.rms], ISetTimer("analyse")>>]

\* now - this.lastDetectionTime < this.detectionSettings.cooldownMs (line 637)
InsideCooldown(now, last, cooldown) == now - last < cooldown

\* Math.min(1, (volume - threshold) / threshold)
ExceedIntensity(volume, threshold) ==
    LET x == ((volume - threshold) * 1000) \div threshold
    IN IF x < 1000 THEN x ELSE 1000

\* detectSound(volume)
detectSound(S, i) ==
    LET p == S.proc
        now == S.clock
    IN IF p.isInCooldown /\ InsideCooldown(now, p.lastDetectionTime,
                                          p.detectionSettings.cooldownMs)
       THEN [st |-> S, code |-> <<>>]
       ELSE LET S1 == [S EXCEPT !.proc.isInCooldown = FALSE]
            IN IF p.calibrationInProgress
               THEN [st |-> Logged([S1 EXCEPT !.proc.calibrationSamples = Append(@, i.rms)],
                                   Did("collect", "detectSound", "")),
                     code |-> <<>>]
               ELSE IF i.rms > p.detectionSettings.threshold
               THEN [st |-> [S1 EXCEPT !.proc.lastDetectionTime = now,
                                       !.proc.isInCooldown = TRUE],
                     code |-> <<[IEmit(SoundDetected) EXCEPT !.intensity =
                                   ExceedIntensity(i.rms, p.detectionSettings.threshold)]>>]
               ELSE [st |-> S1, code |-> <<>>]

\* startCalibration() of the AudioProcessor
processorStartCalibration(S, i) ==
    IF S.proc.calibrationInProgress THEN [st |-> S, code |-> <<>>]
    ELSE [st |-> [S EXCEPT !.proc.calibrationSamples = <<>>,
                           !.proc.calibrationInProgress = TRUE],
          code |-> <<IEmit(AudioCalibrationStarted), ISetTimer("finishCalibration")>>]

\* sortedSamples[Math.floor(sortedSamples.length * 0.75)] (arrays count from 0)
Percentile75(q) == sort(q)[((Len(q) * 3) \div 4) + 1]

\* Math.max(0.05, Math.min(0.5, baseline * (1 + autoThresholdTarget)))
TargetThreshold(baseline, target) ==
    LET t == (baseline * (1000 + target)) \div 1000
    IN Max(MinThreshold, IF t < MaxThreshold THEN t ELSE MaxThreshold)

\* (mutant) a session without samples resets the baseline and the threshold
finishedEmptyResets(S) ==
    [st |-> [S EXCEPT !.proc.baselineNoiseLevel = 0,
                      !.proc.detectionSettings.threshold = MinThreshold],
     code |-> <<IEmit(AudioCalibrationFailed)>>]

\* finishCalibration(): no samples were collected (lines 764-767)
finishedEmpty(S) == [st |-> S, code |-> <<IEmit(AudioCalibrationFailed)>>]

\* finishCalibration()
finishCalibration(S, i) ==
    IF ~S.proc.calibrationInProgress THEN [st |-> S, code |-> <<>>]
    ELSE LET S1 == [S EXCEPT !.proc.calibrationInProgress = FALSE]
             samples == S.proc.calibrationSamples
             c == IF Len(samples) > 0
                  THEN LET baseline == Percentile75(samples)
                           threshold ==
                             TargetThreshold(baseline,
                                             S.proc.detectionSettings.autoThresholdTarget)
                       IN [st |-> Logged(Logged([S1 EXCEPT
                                            !.proc.baselineNoiseLevel = baseline,
                                            !.proc.detectionSettings.threshold = threshold],
                                          Did("baseline", "finishCalibration", "")),
                                   Did("set", "finishCalibration", "audio.threshold")),
                           code |-> <<IEmit(AudioThresholdChanged)>>]
                  ELSE finishedEmpty(S1)
         IN [st |-> c.st, code |-> c.code \o <<IEmit(AudioCalibrationCompleted)>>]

\* the code of the AudioProcessor named by an instruction
Processor(S, i) ==
    CASE i.op = "startCapture" -> startCapture(S, i)
      [] i.op = "initialize" -> initialize(S, i)
      [] i.op = "capture" -> capture(S, i)
      [] i.op = "captured" -> captured(S, i)
      [] i.op = "stopCapture" -> stopCapture(S, i)
      [] i.op = "analyse" -> analyse(S, i)
      [] i.op = "detectSound" -> detectSound(S, i)
      [] i.op = "processorStartCalibration" -> processorStartCalibration(S, i)
      [] i.op = "finishCalibration" -> finishCalibration(S, i)

ProcessorOps ==
    {"startCapture", "initialize", "capture", "captured", "stopCapture", "analyse",
     "detectSound", "processorStartCalibration", "finishCalibration"}

-----------------------------------------------------------------------------
(* Running code up to the next handler invocation *)

RECURSIVE Run(_, _)
Run(S, k) ==
    IF k = <<>> THEN S
    ELSE
      LET i == Head(k)
          r == Tail(k)
      IN CASE i.op = "on" -> Run(on(S, i.ev, i.h), r)
           [] i.op = "off" -> Run(off(S, i.ev, i.h, i.self), r)
           [] i.op = "ran" ->
                Run(Logged(S, [Entry0 EXCEPT !.kind = "ran", !.ev = i.ev, !.from = i.h]), r)
           [] i.op = "once" -> Run(once(S, i.ev, i.h), r)
           [] i.op = "callback" ->
                Run(Logged([S EXCEPT !.fired = @ + 1],
                           [Entry0 EXCEPT !.kind = "callback", !.ev = i.ev, !.from = i.h]), r)
           [] i.op = "throw" -> Caught(S)
           [] i.op = "emit" ->
                LET S1 == emit(S, i)
                IN IF Has(S1, i.ev) THEN Push(S1, i.ev, r)
                   ELSE Run(ReturnedEmpty(S1, i.ev), r)
           [] i.op = "transition" ->
                LET c == transition(S, i) IN Run(c.st, c.code \o r)
           [] i.op = "forceState" ->
                LET c == forceState(S, i) IN Run(c.st, c.code \o r)
           [] i.op = "set" -> Run(set(S, i), r)
           [] i.op = "return" -> Run(Return(S, i), r)
           [] i.op = "await" -> Run(Await(S, i), r)
           [] i.op = "result" -> Run(Result(S, i), r)
           [] i.op \in DetectorOps ->
                LET c == Detector(S, i) IN Run(c.st, c.code \o r)
           [] i.op \in ProcessorOps ->
                LET c == Processor(S, i) IN Run(c.st, c.code \o r)
           [] i.op = "setTimer" -> Run(SetTimer(S, i), r)

\* forEach reached a callback: callback(data) (line 181)
Invoke(S, h) ==
    LET n == Len(S.stack)
        f == S.stack[n]
    IN Run(Logged([S EXCEPT !.stack[n].idx = @ + 1, !.stack[n].invoked = Append(@, h)],
                  [f.data EXCEPT !.kind = "deliver", !.id = 0, !.call = h]),
           Body(h, f.ev))

\* forEach is over: emit returns and its caller runs on
Leave(S) ==
    LET n == Len(S.stack)
        f == S.stack[n]
    IN Run([S EXCEPT !.stack = SubSeq(@, 1, n - 1), !.dones = Append(@, DoneOf(f))], f.k)

\* one step of the emit in progress
Forward(S) ==
    LET f == S.stack[Len(S.stack)]
        q == Subscribers(S, f)
    IN IF f.idx < Len(q) THEN Invoke(S, q[f.idx + 1]) ELSE Leave(S)

-----------------------------------------------------------------------------
(* Actions *)

Idle == stack = <<>>

\* a call from the top level (a DOM event handler, a timer, module initialisation)
Call(k) ==
    /\ Idle
    /\ LET S == Run([St EXCEPT !.log = <<>>, !.rets = <<>>, !.dones = <<>>, !.nextId = 0], k)
       IN /\ Len(S.stack) <= MaxDepth
          /\ Becomes(S)

Dispatch ==
    /\ ~Idle
    /\ LET S == Forward([St EXCEPT !.rets = <<>>, !.dones = <<>>])
       IN /\ Len(S.stack) <= MaxDepth
          /\ Becomes(S)
    /\ UNCHANGED ops

CallOn(ev, h) == Call(<<IOn(ev, h)>>)
CallOff(ev, h) == Call(<<IOff(ev, h, FALSE)>>)
CallEmit(ev) == Call(<<IEmit(ev)>>)

\* once(eventName, callback): a new wrapper is subscribed; w names the wrapper made
\* by the latest call of once
CallOnce(ev, w) ==
    /\ ~(Has(St, ev) /\ w \in Range(subscribers[ev]))
    /\ Call(<<IOnce(ev, w)>>)
CallTransition(s, data, reason) == Call(<<ITransition(s, data, <<"", reason>>)>>)
CallForceState(s, data, reason) == Call(<<IForceState(s, data, <<"", reason>>)>>)

\* a call from the top level that the run counts as one of its ticks, starts, ...
CallCounted(kind, k) ==
    /\ Idle
    /\ LET S == Run([St EXCEPT !.log = <<>>, !.rets = <<>>, !.dones = <<>>, !.nextId = 0,
                               !.used[kind] = @ + 1], k)
       IN /\ Len(S.stack) <= MaxDepth
          /\ Becomes(S)
    /\ UNCHANGED ops

\* detector.start(); supported says whether the browser has the Web Audio API
CallStart(supported) ==
    /\ used.starts < MaxStarts
    /\ CallCounted("starts", <<[IDo("start") EXCEPT !.val = supported]>>)

\* detector.stop()
CallStop ==
    /\ used.stops < MaxStops
    /\ CallCounted("stops", <<IDo("stop")>>)

\* detector.setThreshold(value)
CallSetThreshold(value) ==
    /\ used.calls < MaxCalls
    /\ CallCounted("calls", <<[IDo("setThreshold") EXCEPT !.rms = value]>>)

\* the callback of setInterval (lines 376-378): this.update()
Tick(id, rms) ==
    /\ used.ticks < MaxTicks
    /\ id \in DOMAIN intervals
    /\ intervals[id]
    /\ CallCounted("ticks", <<[IDo("update") EXCEPT !.rms = rms]>>)

\* a tick in which getByteTimeDomainData throws
FailedTick(id) ==
    /\ used.ticks < MaxTicks
    /\ id \in DOMAIN intervals
    /\ intervals[id]
    /\ CallCounted("ticks", <<[IDo("update") EXCEPT !.val = TRUE]>>)

\* a start() that begins the calibration and the updates before it knows whether
\* the stream can be had
ResumedEager(task, answer) ==
    CASE task.pc = "setup" ->
           IF task.ok THEN <<IDo("proceed")>> ELSE <<IResult("start", FALSE)>>
      [] task.pc = "permission" -> <<[IDo("requestPermissions") EXCEPT !.s = answer]>>
      [] task.pc = "permitted" ->
           IF task.ok THEN <<IDo("connect")>> ELSE <<IResult("start", FALSE)>>
      [] task.pc = "stream" ->
           IF answer = "stream"
           THEN <<IDo("connectStream"), IDo("startCalibration"), IDo("startUpdates"),
                  IDo("enable")>>
           ELSE <<IDo("startCalibration"), IDo("startUpdates"),
                  IEmitWith(AudioError, "stream"), IResult("start", FALSE)>>

\* the code of start() after the await it was suspended at
Resumed(task, answer) ==
    CASE task.pc = "setup" ->
           IF task.ok THEN <<IDo("proceed")>> ELSE <<IResult("start", FALSE)>>
      [] task.pc = "permission" -> <<[IDo("requestPermissions") EXCEPT !.s = answer]>>
      [] task.pc = "permitted" ->
           IF task.ok THEN <<IDo("connect")>> ELSE <<IResult("start", FALSE)>>
      [] task.pc = "stream" ->
           IF answer = "stream"
           THEN <<IDo("connectStream"), IDo("startCalibration"), IDo("startUpdates"),
                  IDo("enable")>>
           ELSE <<IEmitWith(AudioError, "stream"), IResult("start", FALSE)>>

\* what the browser may answer to the request a start() is waiting for
Answers(task) ==
    CASE task.pc = "permission" -> {"granted", "stream", "denied"}
      [] task.pc = "stream" -> {"stream", "denied"}
      [] OTHER -> {"-"}

\* a suspended start() goes on: the promise it awaits is settled
ResumeStart(n, answer) ==
    /\ Idle
    /\ n \in DOMAIN starts
    /\ answer \in Answers(starts[n])
    /\ LET S == Run([St EXCEPT !.log = <<>>, !.rets = <<>>, !.dones = <<>>, !.nextId = 0,
                               !.starts = Without(@, n)],
                    Resumed(starts[n], answer))
       IN /\ Len(S.stack) <= MaxDepth
          /\ Becomes(S)
    /\ UNCHANGED ops

\* time passes
Advance ==
    /\ Idle
    /\ clock < MaxClock
    /\ clock' = clock + 1
    /\ UNCHANGED <<subscribers, stats, stack, currentState, previousState, stateData,
                   stateHistory, settings, log, rets, dones, nextId, gone, recorded,
                   fired, detector, intervals, starts, stopped, processor, timers,
                   used, ops>>

\* audioProcessor.startCapture(); supported says whether the browser has an
\* AudioContext
CallStartCapture(supported) ==
    /\ used.starts < MaxStarts
    /\ CallCounted("starts", <<[IDo("startCapture") EXCEPT !.val = supported]>>)

\* audioProcessor.stopCapture()
CallStopCapture ==
    /\ used.stops < MaxStops
    /\ CallCounted("stops", <<IDo("stopCapture")>>)

\* the code of startCapture() after the await it was suspended at; rms is the
\* volume of the first frame
ResumedCapture(task, answer, rms) ==
    CASE task.pc = "query" -> <<[IDo("initialize") EXCEPT !.val = task.ok]>>
      [] task.pc = "initialize" ->
           IF task.ok THEN <<IDo("capture")>> ELSE <<IResult("startCapture", FALSE)>>
      [] task.pc = "getUserMedia" ->
           IF answer = "stream"
           THEN <<[IDo("captured") EXCEPT !.rms = rms]>>
           ELSE <<IEmitWith(AudioProcessorError, "capture"),
                  IResult("startCapture", FALSE)>>

\* what the browser may answer to the request a startCapture() is waiting for
CaptureAnswers(task) ==
    IF task.pc = "getUserMedia" THEN {"stream", "denied"} ELSE {"-"}

\* a suspended startCapture() goes on: the promise it awaits is settled
ResumeCapture(n, answer, rms) ==
    /\ Idle
    /\ n \in DOMAIN starts
    /\ answer \in CaptureAnswers(starts[n])
    /\ LET S == Run([St EXCEPT !.log = <<>>, !.rets = <<>>, !.dones = <<>>, !.nextId = 0,
                               !.starts = Without(@, n)],
                    ResumedCapture(starts[n], answer, rms))
       IN /\ Len(S.stack) <= MaxDepth
          /\ Becomes(S)
    /\ UNCHANGED ops

\* the callback of requestAnimationFrame (line 540): this.analyse()
Frame(n, rms) ==
    /\ used.ticks < MaxTicks
    /\ n \in DOMAIN timers
    /\ timers[n] = "analyse"
    /\ Idle
    /\ LET S == Run([St EXCEPT !.log = <<>>, !.rets = <<>>, !.dones = <<>>, !.nextId = 0,
                               !.timers = Without(@, n), !.used.ticks = @ + 1],
                    <<[IDo("analyse") EXCEPT !.rms = rms]>>)
       IN /\ Len(S.stack) <= MaxDepth
          /\ Becomes(S)
    /\ UNCHANGED ops

\* a frame in which reading the analyser or analysing the data throws
FailedFrame(n) ==
    /\ used.ticks < MaxTicks
    /\ n \in DOMAIN timers
    /\ timers[n] = "analyse"
    /\ Idle
    /\ LET S == Run([St EXCEPT !.log = <<>>, !.rets = <<>>, !.dones = <<>>, !.nextId = 0,
                               !.timers = Without(@, n), !.used.ticks = @ + 1],
                    <<[IDo("analyse") EXCEPT !.val = TRUE]>>)
       IN /\ Len(S.stack) <= MaxDepth
          /\ Becomes(S)
    /\ UNCHANGED ops

\* the callback of a setTimeout: this.startCalibration() (line 411) or
\* this.finishCalibration() (line 706)
Timeout(n) ==
    /\ n \in DOMAIN timers
    /\ timers[n] \in {"startCalibration", "finishCalibration"}
    /\ Idle
    /\ LET S == Run([St EXCEPT !.log = <<>>, !.rets = <<>>, !.dones = <<>>, !.nextId = 0,
                               !.timers = Without(@, n)],
                    <<IDo(IF timers[n] = "startCalibration"
                          THEN "processorStartCalibration" ELSE "finishCalibration")>>)
       IN /\ Len(S.stack) <= MaxDepth
          /\ Becomes(S)
    /\ UNCHANGED ops

\* eventBus.emit('audio-calibrate-request'): the listener of the AudioProcessor
\* (lines 186-188) calls this.startCalibration()
CallCalibrate ==
    /\ used.calls < MaxCalls
    /\ CallCounted("calls", <<IDo("processorStartCalibration")>>)

\* an application call of the state machine, counted
CallMachine(i) ==
    /\ used.calls < MaxCalls
    /\ CallCounted("calls", <<i>>)

\* new EventBus(); new StateMachine(); new SettingsManager(defaultConfig)
Init ==
    /\ subscribers = <<>>
    /\ stats = [totalEvents |-> 0, eventCounts |-> [e \in AllEvents |-> 0],
                peakListenerCount |-> 0, activeSubscriptions |-> 0]
    /\ stack = <<>>
    /\ currentState = INITIALIZING
    /\ previousState = Null
    /\ stateData = NoData
    /\ stateHistory = <<[from |-> Null, to |-> INITIALIZING,
                         reason |-> <<"", "initialization">>, data |-> NoData]>>
    /\ settings = Unset
    /\ log = <<>>
    /\ rets = <<>>
    /\ dones = <<>>
    /\ nextId = 0
    /\ gone = {}
    /\ recorded = stateHistory
    /\ fired = 0
    /\ detector = Detector0
    /\ intervals = <<>>
    /\ starts = <<>>
    /\ clock = 0
    /\ stopped = FALSE
    /\ processor = Processor0
    /\ timers = <<>>
    /\ used = [ticks |-> 0, starts |-> 0, stops |-> 0, calls |-> 0]
    /\ ops = 0

\* The bus alone, with callbacks that subscribe, unsubscribe and throw
BusNext ==
    \/ /\ ops < MaxOps
       /\ \E ev \in BusEvents, h \in BusCallbacks : CallOn(ev, h)
       /\ ops' = ops + 1
    \/ /\ ops < MaxOps
       /\ \E ev \in BusEvents, h \in BusCallbacks : CallOff(ev, h)
       /\ ops' = ops + 1
    \/ /\ ops < MaxOps
       /\ \E ev \in BusEvents : CallEmit(ev)
       /\ ops' = ops + 1
    \/ Dispatch

SpecBus == Init /\ [][BusNext]_vars

\* Subscriptions made with once() next to ordinary ones, the same callback
\* subscribed repeatedly
OnceNext ==
    \/ /\ ops < MaxOps
       /\ CallOnce(SoundDetected, OnceReEmit)
       /\ ops' = ops + 1
    \/ /\ ops < MaxOps
       /\ \E h \in OnceCallbacks \ {OnceReEmit} : CallOn(SoundDetected, h)
       /\ ops' = ops + 1
    \/ /\ ops < MaxOps
       /\ \E h \in OnceCallbacks : CallOff(SoundDetected, h)
       /\ ops' = ops + 1
    \/ /\ ops < MaxOps
       /\ CallEmit(SoundDetected)
       /\ ops' = ops + 1
    \/ Dispatch

SpecOnce == Init /\ [][OnceNext]_vars

\* The BrowserAudioDetector at work: one start(), the ticks of its timer with the
\* clock running, threshold changes, and an application driving the state machine
DetectorNext ==
    \/ used.starts = 0 /\ CallStart(TRUE)
    \/ \E n \in DOMAIN starts, answer \in {"granted", "stream", "denied", "-"} :
          ResumeStart(n, answer)
    \/ used.stops = 0 /\ CallStop
    \/ \E id \in DOMAIN intervals, rms \in Volumes : Tick(id, rms)
    \/ Advance
    \/ \E value \in {0} : CallSetThreshold(value)
    \/ \E s \in {READY, RUNNING} : CallMachine(ITransition(s, NoData, NoReason))
    \/ \E s \in {RUNNING, CALIBRATING} :
          CallMachine(IForceState(s, NoData, <<"", "forced">>))

SpecDetector == Init /\ [][DetectorNext]_vars

\* The AudioProcessor at work: startCapture() and stopCapture(), the frames of its
\* analysis loop with the clock running, and its calibration timers
ProcessorNext ==
    \/ \E supported \in BOOLEAN : CallStartCapture(supported)
    \/ \E n \in DOMAIN starts, answer \in {"stream", "denied", "-"},
          rms \in ProcessorVolumes :
          ResumeCapture(n, answer, rms)
    \/ CallStopCapture
    \/ \E n \in DOMAIN timers, rms \in ProcessorVolumes : Frame(n, rms)
    \/ \E n \in DOMAIN timers : Timeout(n)
    \/ CallCalibrate
    \/ clock <= CooldownTime /\ Advance

SpecProcessor == Init /\ [][ProcessorNext]_vars

\* The BrowserAudioDetector with a subscriber of volume-updated that changes the
\* threshold while the tick that published the event is still going on
SnapshotNext ==
    \/ /\ ~(Has(St, VolumeUpdated) /\ SetsThreshold \in Range(subscribers[VolumeUpdated]))
       /\ CallOn(VolumeUpdated, SetsThreshold)
       /\ UNCHANGED ops
    \/ used.starts = 0 /\ CallStart(TRUE)
    \/ \E n \in DOMAIN starts, answer \in {"granted", "stream", "denied", "-"} :
          ResumeStart(n, answer)
    \/ \E id \in DOMAIN intervals, rms \in Volumes : Tick(id, rms)
    \/ Advance
    \/ Dispatch

SpecSnapshot == Init /\ [][SnapshotNext]_vars

\* The life cycle of the BrowserAudioDetector: start() calls suspended at their
\* awaits, stop() calls in between, and the ticks of the timers that are set
LifecycleNext ==
    \/ \E supported \in BOOLEAN : CallStart(supported)
    \/ \E n \in DOMAIN starts, answer \in {"granted", "stream", "denied", "-"} :
          ResumeStart(n, answer)
    \/ CallStop
    \/ \E id \in DOMAIN intervals : Tick(id, 500)

SpecLifecycle == Init /\ [][LifecycleNext]_vars

\* The state machine on the bus, with callbacks that call transition() themselves
MachineNext ==
    \/ /\ stats.activeSubscriptions < MaxSubs
       /\ \E p \in MachineSubscriptions : CallOn(p[1], p[2])
       /\ UNCHANGED ops
    \/ /\ ops < MaxCalls
       /\ \E s \in AppStates, a \in Args : CallTransition(s, a[1], a[2])
       /\ ops' = ops + 1
    \/ /\ ops < MaxCalls
       /\ \E s \in AppStates : CallForceState(s, "d0", "forced")
       /\ ops' = ops + 1
    \/ Dispatch

SpecMachine == Init /\ [][MachineNext]_vars

\* Long runs of the state machine: Start and Stop clicks, a forced recovery now and
\* then, and a state-changed subscriber that may call transition() itself
HistoryTargets == {READY, RUNNING}
HistorySubscriptions == {<<StateChanged, GoRunning>>}
ForcedEntries == {j \in 1..Len(stateHistory) : stateHistory[j].reason[1] = "FORCED: "}

HistoryNext ==
    \/ /\ \E p \in HistorySubscriptions : ~Has(St, p[1]) /\ CallOn(p[1], p[2])
       /\ UNCHANGED ops
    \/ /\ ops < MaxHistoryCalls
       /\ \E s \in HistoryTargets : CallTransition(s, "d0", "")
       /\ ops' = ops + 1
    \/ /\ ops < MaxHistoryCalls
       /\ ForcedEntries = {}
       /\ CallForceState(ERROR, "d0", "forced")
       /\ ops' = ops + 1
    \/ Dispatch

SpecHistory == Init /\ [][HistoryNext]_vars

-----------------------------------------------------------------------------
(* Claims about EventBus.emit *)

\* the emits in progress and the emits that just returned
Emits == {DoneOf(stack[i]) : i \in 1..Len(stack)} \cup Range(dones)

\* C7: an emit dispatches to the subscribers it found when it began: a callback
\* subscribed to the event while the emit is dispatching is not invoked by it.
C7_SnapshotExcludesAdded ==
    \A d \in Emits : Range(d.invoked) \subseteq Range(d.snap)

\* C8: an emit dispatches to the subscribers it found when it began: when it
\* returns, every callback that was subscribed when it began has been invoked,
\* also one that an earlier callback unsubscribed during the dispatch.
C8_SnapshotKeepsRemoved ==
    \A d \in Range(dones) : Range(d.snap) \subseteq Range(d.invoked)

\* C9: when a callback throws during an emit (and no callback changes the
\* subscriptions), the emit goes on: the callbacks invoked so far are the
\* subscribers in order, each once, and when the emit returns they are all of them.
C9_ThrowDoesNotStopOthers ==
    /\ \A i \in 1..Len(stack) :
          LET f == stack[i] IN
          (f.threw /\ ~f.mutated /\ f.selfOff = {}) =>
              /\ ~f.detached
              /\ f.invoked = SubSeq(f.snap, 1, f.idx)
    /\ \A d \in Range(dones) :
          (d.threw /\ ~d.mutated /\ d.selfOff = {}) => d.invoked = d.snap

\* an emit with a throwing first subscriber and another one after it has returned
C9_Witness ==
    \E d \in Range(dones) :
        /\ d.threw /\ ~d.mutated /\ d.selfOff = {}
        /\ Len(d.snap) >= 2
        /\ d.snap[1] = Thrower
        /\ d.invoked = d.snap

\* C10: a callback that unsubscribes itself during a dispatch finishes its own
\* invocation, the emit still invokes every other subscriber exactly once, and no
\* later emit invokes the callback (as long as nobody subscribes it again).
C10_SelfUnsubscribe ==
    /\ \A d \in Range(dones) :
          (d.selfOff # {} /\ ~d.mutated) =>
              /\ d.invoked = d.snap
              /\ \A h \in d.selfOff :
                    /\ \E j \in 1..Len(log) :
                          log[j].kind = "ran" /\ log[j].from = h /\ log[j].ev = d.ev
                    /\ ~(Has(St, d.ev) /\ h \in Range(subscribers[d.ev]))
    /\ \A d \in Emits : Range(d.invoked) \cap d.pre = {}

\* an emit whose first subscriber unsubscribed itself, with another one after it,
\* has returned
C10_Witness ==
    \E d \in Range(dones) :
        /\ d.selfOff = {OffSelf} /\ ~d.mutated
        /\ Len(d.snap) >= 2
        /\ d.snap[1] = OffSelf
        /\ d.invoked = d.snap
        /\ <<d.ev, OffSelf>> \in gone

\* a later emit has returned that found other subscribers, the callback having
\* unsubscribed itself before
C10_LaterEmit ==
    \E d \in Range(dones) : OffSelf \in d.pre /\ d.invoked # <<>> /\ ~d.mutated

\* a sequence without repeated elements
NoDuplicates(q) == \A a, b \in 1..Len(q) : q[a] = q[b] => a = b

Subscribed(ev, h) == Has(St, ev) /\ h \in Range(subscribers[ev])

\* on() was called more often than there are subscriptions: some callback was
\* subscribed to an event it was subscribed to already (off only counts removals)
Resubscribed ==
    stats.activeSubscriptions
        > (IF Has(St, SoundDetected) THEN Len(subscribers[SoundDetected]) ELSE 0)

\* C11: a callback subscribed to an event several times is registered once: an
\* emit (during which no subscription changes) invokes it exactly once, and one
\* off() call leaves it unsubscribed.
C11_SubscribeIdempotent ==
    /\ [](\A ev \in DOMAIN subscribers : NoDuplicates(subscribers[ev]))
    /\ [](\A d \in Range(dones) :
            (~d.mutated /\ d.selfOff = {}) => (d.invoked = d.snap /\ NoDuplicates(d.invoked)))
    /\ [][\A ev \in BusEvents, h \in OnceCallbacks :
            CallOff(ev, h) => ~(ev \in DOMAIN subscribers' /\ h \in Range(subscribers'[ev]))]_vars

\* an emit has returned that invoked the one callback subscribed, after on() had
\* been called twice for it
C11_Witness ==
    /\ Resubscribed
    /\ \E d \in Range(dones) : d.snap = <<Plain>> /\ d.invoked = <<Plain>> /\ ~d.mutated
    /\ stats.activeSubscriptions = 2

\* off() has removed the only subscription after on() had been called twice for it
C11_Unsubscribed == subscribers = <<>> /\ stats.activeSubscriptions = 1 /\ Idle

\* C12: the callback given to once() runs at most once, however often the event is
\* emitted afterwards and also when the callback emits the event itself, and once
\* it has run its wrapper is no longer subscribed.
C12_OnceAtMostOnce ==
    /\ fired <= 1
    /\ fired = 1 => ~Subscribed(SoundDetected, OnceReEmit)

\* the callback given to once() has run and emitted the event again; both emits
\* have returned, the outer one having gone on to the subscriber after the wrapper
C12_Witness ==
    /\ fired = 1
    /\ Idle
    /\ Len(SelectSeq(log, LAMBDA e : e.kind = "emit" /\ e.ev = SoundDetected)) = 2
    /\ \E d \in Range(dones) : d.snap = <<OnceReEmit, Plain>> /\ d.invoked = d.snap

-----------------------------------------------------------------------------
(* Claims about the StateMachine *)

\* what the state machine call with this id has done itself, in order
Own(id) == SelectSeq(log, LAMBDA e : e.id = id)

\* no other state machine call began while the call that returned as r was running
Alone(r) == r.last = r.id

RejectedCalls == {r \in Range(rets) : r.call = "transition" /\ r.s \notin validTransitions[r.old.cur]}
AcceptedCalls == {r \in Range(rets) : r.call = "transition" /\ r.s \in validTransitions[r.old.cur]}
ForcedCalls == {r \in Range(rets) : r.call = "forceState"}

\* what the step being taken appends to the log
StepLog == SubSeq(log', IF Idle THEN 1 ELSE Len(log) + 1, Len(log'))

ForcedStep ==
    \E j \in 1..Len(StepLog) : StepLog[j].kind = "state" /\ StepLog[j].call = "forceState"

\* C1: unless forceState is used, the current state changes only along an edge of
\* the transition table, and a transition() to a state that is no table successor
\* of the current state changes nothing: it returns false having set no state.
C1_OnlyTableEdges ==
    /\ [][(currentState' # currentState /\ ~ForcedStep)
            => currentState' \in validTransitions[currentState]]_vars
    /\ [](\A r \in RejectedCalls :
            /\ ~r.val
            /\ \A j \in 1..Len(log) : log[j].id = r.id => log[j].kind = "emit"
            /\ Alone(r) => r.at.cur = r.old.cur)

\* a transition() out of Ready was rejected, after an accepted one had led there
C1_Witness ==
    \E r \in RejectedCalls : r.old.cur = READY /\ currentState = READY /\ ~r.val

\* C2: a rejected transition() returns false; all it does is publish one
\* state-transition-invalid event {from: current state, to: requested state,
\* reason}; it publishes no state-changed event and it leaves current state,
\* previous state, state data, history and the persisted state as they were.
C2_RejectedTransition ==
    \A r \in RejectedCalls :
        /\ ~r.val
        /\ Own(r.id) = << [Entry0 EXCEPT !.kind = "emit", !.id = r.id,
                                         !.ev = StateTransitionInvalid,
                                         !.from = r.old.cur, !.to = r.s,
                                         !.reason = r.reason] >>
        /\ Alone(r) => r.at = r.old

\* a rejected transition() has returned after its state-transition-invalid event was
\* delivered to a subscriber, with state data and a persisted state to preserve
C2_Witness ==
    \E r \in RejectedCalls :
        /\ r.old.data = "d0" /\ r.data = "d1" /\ r.old.persisted # Unset
        /\ Alone(r)
        /\ \E d \in Range(dones) : d.ev = StateTransitionInvalid /\ d.invoked # <<>>

\* the history entry of a call
HistoryEntry(from, to, reason, data) ==
    [from |-> from, to |-> to, reason |-> reason, data |-> data]

\* C3: an accepted transition(newState) returns true, having set previous state to
\* the old current state and current state to newState, appended the history entry
\* {from: old, to: newState}, published exactly one state-changed event with
\* from = old and to = newState, and handed newState to the settings store, in that
\* order; unless a subscriber called the state machine meanwhile, that is the state
\* it returns in.
C3_AcceptedTransition ==
    \A r \in AcceptedCalls :
        /\ r.val
        /\ Own(r.id) =
             << [Entry0 EXCEPT !.kind = "state", !.id = r.id, !.call = "transition",
                               !.from = r.old.cur, !.to = r.s, !.data = r.data],
                [Entry0 EXCEPT !.kind = "hist", !.id = r.id,
                               !.from = r.old.cur, !.to = r.s, !.data = r.data,
                               !.reason = r.reason],
                [Entry0 EXCEPT !.kind = "emit", !.id = r.id, !.ev = StateChanged,
                               !.from = r.old.cur, !.to = r.s, !.data = r.data,
                               !.reason = r.reason],
                [Entry0 EXCEPT !.kind = "set", !.id = r.id, !.to = r.s] >>
        /\ Alone(r) =>
             /\ r.at.cur = r.s
             /\ r.at.prev = r.old.cur
             /\ r.at.data = r.data
             /\ r.at.persisted = r.s
             /\ r.at.hist = Append(IF Len(r.old.hist) < maxHistoryLength
                                   THEN r.old.hist ELSE Tail(r.old.hist),
                                   HistoryEntry(r.old.cur, r.s, r.reason, r.data))

\* an accepted transition() has returned after its state-changed event was
\* delivered to a subscriber
C3_Witness ==
    \E r \in AcceptedCalls :
        /\ r.val /\ Alone(r) /\ r.old.cur = READY
        /\ \E d \in Range(dones) : d.ev = StateChanged /\ d.invoked # <<>>

\* C5: forceState(s) succeeds for every target whatever the transition table says:
\* it sets the current state to s and the previous state to the old state, appends
\* a history entry with the reason flagged as forced, and publishes one state-forced
\* and then one state-changed event, both with from = old state and to = s.
C5_ForceState ==
    \A r \in ForcedCalls :
        /\ r.val
        /\ Own(r.id) =
             << [Entry0 EXCEPT !.kind = "state", !.id = r.id, !.call = "forceState",
                               !.from = r.old.cur, !.to = r.s, !.data = r.data],
                [Entry0 EXCEPT !.kind = "hist", !.id = r.id,
                               !.from = r.old.cur, !.to = r.s, !.data = r.data,
                               !.reason = ForcedReason(r.reason)],
                [Entry0 EXCEPT !.kind = "emit", !.id = r.id, !.ev = StateForced,
                               !.from = r.old.cur, !.to = r.s, !.data = r.data,
                               !.reason = r.reason],
                [Entry0 EXCEPT !.kind = "emit", !.id = r.id, !.ev = StateChanged,
                               !.from = r.old.cur, !.to = r.s, !.data = r.data,
                               !.reason = ForcedReason(r.reason)],
                [Entry0 EXCEPT !.kind = "set", !.id = r.id, !.to = r.s] >>

\* the last n entries of a sequence
LastN(q, n) == SubSeq(q, Len(q) - n + 1, Len(q))

\* C4: the history never holds more than maxHistoryLength entries, counting the
\* entry of the constructor and those of transition and forceState, and it is
\* always the most recent entries recorded, oldest first.
C4_HistoryBounded ==
    /\ Len(stateHistory) <= maxHistoryLength
    /\ Len(stateHistory) = IF Len(recorded) < maxHistoryLength
                           THEN Len(recorded) ELSE maxHistoryLength
    /\ stateHistory = LastN(recorded, Len(stateHistory))

\* more entries were recorded than the history holds, a forced one among those kept
C4_Witness ==
    /\ Len(recorded) > maxHistoryLength
    /\ Len(stateHistory) = maxHistoryLength
    /\ recorded[1] # stateHistory[1]
    /\ ForcedEntries # {}

\* C6: the history lists the state changes in the order they were applied: a
\* rejected transition() adds no entry, every entry starts from the state the entry
\* before it led to, and the last entry leads to the current state.
C6_HistoryInOrder ==
    /\ \A j \in 2..Len(stateHistory) : stateHistory[j].from = stateHistory[j - 1].to
    /\ stateHistory[Len(stateHistory)].to = currentState
    /\ \A r \in RejectedCalls : Alone(r) => r.at.hist = r.old.hist

\* Initializing -> Running was rejected, then Initializing -> Ready and
\* Ready -> Running were accepted: the history ends with those two, in that order
C6_Witness ==
    /\ ops = 3
    /\ Len(recorded) = 3
    /\ Len(stateHistory) = 3
    /\ stateHistory[2].from = INITIALIZING /\ stateHistory[2].to = READY
    /\ stateHistory[3].from = READY /\ stateHistory[3].to = RUNNING
    /\ \E r \in AcceptedCalls : r.s = RUNNING

-----------------------------------------------------------------------------
(* Claims about the BrowserAudioDetector *)

\* Math.max(0, rms - this.baselineVolume) of the tick to come
RelativeVolume(rms) == Max(0, rms - detector.baselineVolume)

\* the tick to come is a detection tick with a qualifying volume
Spike(rms) ==
    /\ detector.isEnabled
    /\ detector.isSetup
    /\ ~detector.calibrating
    /\ Qualifies(detector, RelativeVolume(rms), RelativeVolume(rms) - detector.prevVolume)

\* sound-detected events published so far
Triggers == stats.eventCounts[SoundDetected]

\* C13: two consecutive sound-detected events of the AudioProcessor are more than
\* the cooldown apart
C13_CooldownSeparates ==
    [][Triggers > 0 /\ Triggers' > Triggers
         => clock' - processor.lastDetectionTime > processor.detectionSettings.cooldownMs]_vars

\* the same of the BrowserAudioDetector
C13_DetectorCooldown ==
    [][Triggers > 0 /\ Triggers' > Triggers
         => clock' - detector.lastTriggerTime > detector.cooldownTime]_vars

\* the BrowserAudioDetector has published two sound-detected events
C13_DetectorTwice == Triggers = 2 /\ detector.lastTriggerTime > 0

Done(kind) == {e \in Range(log) : e.kind = kind}
Published(ev) == {e \in Done("emit") : e.ev = ev}

\* C15: a tick that finds a calibration session in progress publishes no
\* sound-detected, whatever its volume
C15_SilentWhileCalibrating ==
    Done("collect") # {} => Published(SoundDetected) = {}

\* a loud calibration tick outside the cooldown, the session still going on
C15_Witness ==
    /\ Done("collect") # {}
    /\ detector.calibrating
    /\ detector.calibrationSamples[Len(detector.calibrationSamples)] = 500
    /\ clock - detector.lastTriggerTime > detector.cooldownTime
    /\ Published(AudioCalibrationProgress) # {}

\* C16: the baseline changes only in the tick that completes a calibration
\* session, to the median plus the margin of the samples of that session, which
\* starts without samples and gets one sample per tick; detection ticks, stop()
\* and setThreshold() leave it as it is
C16_BaselineFromCalibration ==
    [][/\ detector'.baselineVolume # detector.baselineVolume
          => /\ detector.calibrating /\ ~detector'.calibrating
             /\ \E rms \in Volumes :
                   detector'.calibrationSamples = Append(detector.calibrationSamples, rms)
             /\ detector'.baselineVolume = Median(detector'.calibrationSamples) + Margin
       /\ ~detector.calibrating /\ detector'.calibrating
          => detector'.calibrationSamples = <<>>
       /\ /\ detector.calibrating
          /\ detector'.calibrationSamples # detector.calibrationSamples
          => \E rms \in Volumes :
               detector'.calibrationSamples = Append(detector.calibrationSamples, rms)]_vars

\* a session completed with different samples, then a detection tick, a threshold
\* change and stop() with the baseline in place
C16_Witness ==
    /\ detector.baselineVolume = 110 + Margin
    /\ detector.calibrationSamples \in {<<0, 110>>, <<110, 0>>}
    /\ detector.prevVolume > 0
    /\ detector.threshold # Threshold
    /\ stopped

\* the same of the AudioProcessor: the baseline changes only when
\* finishCalibration() ends a session that has samples, to their 75th percentile
C16_ProcessorBaseline ==
    [][/\ processor'.baselineNoiseLevel # processor.baselineNoiseLevel
          => /\ processor.calibrationInProgress /\ ~processor'.calibrationInProgress
             /\ processor.calibrationSamples # <<>>
             /\ processor'.calibrationSamples = processor.calibrationSamples
             /\ processor'.baselineNoiseLevel = Percentile75(processor.calibrationSamples)
       /\ ~processor.calibrationInProgress /\ processor'.calibrationInProgress
          => processor'.calibrationSamples = <<>>
       /\ processor'.calibrationSamples # processor.calibrationSamples
          => \/ processor'.calibrationSamples = <<>>
             \/ /\ processor.calibrationInProgress
                /\ \E rms \in ProcessorVolumes :
                      processor'.calibrationSamples =
                        Append(processor.calibrationSamples, rms)]_vars

\* the AudioProcessor has a baseline from a session
C16_ProcessorCalibrated ==
    /\ processor.baselineNoiseLevel = 500
    /\ Len(processor.calibrationSamples) = 2
    /\ Done("baseline") # {}

\* the requestAnimationFrame callbacks of the analysis loop that are waiting
Loops(q) == Cardinality({n \in DOMAIN q : q[n] = "analyse"})

\* C17: a calibration session of the AudioProcessor that ends without samples
\* publishes audio-calibration-failed and leaves the baseline, the threshold,
\* isRunning and the analysis loop as they were
C17_EmptyCalibrationFails ==
    [][/\ processor.calibrationInProgress
       /\ ~processor'.calibrationInProgress
       /\ processor.calibrationSamples = <<>>
       => /\ Published(AudioCalibrationFailed)' # {}
          /\ Published(AudioThresholdChanged)' = {}
          /\ Done("set")' = {}
          /\ processor'.baselineNoiseLevel = processor.baselineNoiseLevel
          /\ processor'.detectionSettings = processor.detectionSettings
          /\ processor'.isRunning = processor.isRunning
          /\ Loops(timers') = Loops(timers)]_vars

\* a running AudioProcessor with a baseline and a threshold from an earlier session
\* whose next session ended without samples
C17_Witness ==
    /\ Published(AudioCalibrationFailed) # {}
    /\ processor.isRunning
    /\ Loops(timers) > 0
    /\ processor.baselineNoiseLevel = 500
    /\ processor.detectionSettings.threshold = MaxThreshold
    /\ processor.calibrationSamples = <<>>

\* C18: when a calibration session completes while the state machine is in
\* Calibrating, which it entered from Ready or from Running, the state machine
\* goes back to that state
C18_ReturnsToPriorState ==
    [][/\ detector.calibrating
       /\ ~detector'.calibrating
       /\ currentState = CALIBRATING
       /\ previousState \in {READY, RUNNING}
       => currentState' = previousState]_vars

\* the same for Calibrating entered from Ready only
C18_ReturnsToReady ==
    [][/\ detector.calibrating
       /\ ~detector'.calibrating
       /\ currentState = CALIBRATING
       => currentState' = READY /\ previousState' = CALIBRATING]_vars

\* a session that began in Ready has completed and the state machine is in Ready
C18_BackInReady ==
    /\ Done("baseline") # {}
    /\ currentState = READY
    /\ previousState = CALIBRATING
    /\ stateHistory[Len(stateHistory) - 1].from = READY

\* the latest call was stop() or stopCapture() and it has returned
JustStopped == \E e \in Done("return") : e.call \in {"stop", "stopCapture"}

\* C19: stop() called right after stop() changes nothing of the detector and its
\* timers, cancels nothing and publishes nothing
C19_SecondStopNoOp ==
    [][JustStopped /\ used'.stops = used.stops + 1
         => /\ detector' = detector
            /\ intervals' = intervals
            /\ Done("cancel")' = {}
            /\ Done("emit")' = {}]_vars

\* the same of the AudioProcessor: stopCapture() right after stopCapture()
C19_SecondStopCaptureNoOp ==
    [][JustStopped /\ used'.stops = used.stops + 1
         => /\ processor' = processor
            /\ timers' = timers
            /\ Done("cancel")' = {}
            /\ Done("emit")' = {}]_vars

\* stopCapture() was called right after a stopCapture() that stopped a capture
C19_StoppedCaptureTwice ==
    /\ JustStopped
    /\ used.stops = 2
    /\ processor.isInitialized
    /\ ~processor.isRunning
    /\ stats.eventCounts[AudioCaptureStopped] = 1
    /\ log = <<[Did("return", "stopCapture", "") EXCEPT !.from = "true"]>>

\* C20: once stop() has returned and until start() is called again, no tick reads
\* a sample, collects a calibration sample or publishes anything
C20_NoWorkAfterStop ==
    stopped => Done("sample") = {} /\ Done("collect") = {}

\* C21: when the state machine leaves Calibrating while a calibration session of
\* the detector is going on (the step is not the one that completes the session),
\* the session is discarded: the detector stops calibrating and drops the samples,
\* so that no baseline is derived from them later
C21_LeavingDiscardsSession ==
    [][/\ currentState = CALIBRATING
       /\ currentState' # CALIBRATING
       /\ detector.calibrating
       /\ Done("baseline")' = {}
       => /\ ~detector'.calibrating
          /\ detector'.calibrationSamples = <<>>]_vars

\* a baseline was derived in a tick that found the state machine outside
\* Calibrating, from samples collected before it left
C21_BaselineAfterLeaving ==
    /\ Done("baseline") # {}
    /\ Published(StateChanged) = {}
    /\ currentState = READY
    /\ previousState = CALIBRATING

\* the ticks of the latest call that read a sample outside calibration
DetectionTicks == {e \in Done("sample") : Published(VolumeUpdated) # {}}

\* C22: a detection tick decides and computes the intensity from the threshold,
\* the cooldown and the trigger time it found when it began, also when a
\* subscriber of the volume-updated event it publishes changes the threshold
C22_TickUsesSnapshot ==
    Idle =>
      \A e \in DetectionTicks :
        LET relativeVolume == detector.prevVolume
            volumeChange == relativeVolume - e.config.prevVolume
            fires == /\ OutsideCooldown(e.config.now, e.config.lastTriggerTime,
                                        e.config.cooldownTime)
                     /\ Qualifies(e.config, relativeVolume, volumeChange)
        IN /\ fires <=> Published(SoundDetected) # {}
           /\ \A p \in Published(SoundDetected) :
                p.intensity = Intensity(e.config, relativeVolume)

\* the same when no subscriber has changed the threshold during the tick
C22_UndisturbedTick ==
    Idle /\ Done("set") = {} =>
      \A e \in DetectionTicks :
        LET relativeVolume == detector.prevVolume
            volumeChange == relativeVolume - e.config.prevVolume
            fires == /\ OutsideCooldown(e.config.now, e.config.lastTriggerTime,
                                        e.config.cooldownTime)
                     /\ Qualifies(e.config, relativeVolume, volumeChange)
        IN /\ fires <=> Published(SoundDetected) # {}
           /\ \A p \in Published(SoundDetected) :
                p.intensity = Intensity(e.config, relativeVolume)

\* an undisturbed detection tick has published sound-detected
C22_UndisturbedFired ==
    /\ Idle
    /\ Done("set") = {}
    /\ DetectionTicks # {}
    /\ Published(SoundDetected) # {}

\* C23: whenever no call is in progress, the detector is collecting
\* calibration samples (its calibrating flag is set) exactly when the state
\* machine's current state is Calibrating.
C23_CalibratingIffState ==
    Idle => (detector.calibrating <=> currentState = CALIBRATING)

\* the states in which the flag and the application state disagree
C23_CollectingOutsideCalibrating ==
    Idle /\ detector.calibrating /\ currentState = READY /\ previousState = CALIBRATING

C23_CalibratingStateNotCollecting ==
    Idle /\ ~detector.calibrating /\ currentState = CALIBRATING

-----------------------------------------------------------------------------
(* Claims about failing starts *)

\* detector.start() attempted again after a failure or after a stop()
Attempt(supported) ==
    /\ used.starts < MaxAttempts
    /\ CallCounted("starts", <<[IDo("start") EXCEPT !.val = supported]>>)

\* start() attempts answered in every way by the browser, from Initializing and
\* from Ready, with stop() and the ticks of the timer, failing ones too, in between
AttemptNext ==
    \/ \E supported \in BOOLEAN : Attempt(supported)
    \/ \E n \in DOMAIN starts, answer \in {"granted", "stream", "denied", "-"} :
          ResumeStart(n, answer)
    \/ used.stops = 0 /\ CallStop
    \/ \E id \in DOMAIN intervals : Tick(id, 500)
    \/ \E id \in DOMAIN intervals : FailedTick(id)
    \/ currentState = INITIALIZING /\ CallMachine(ITransition(READY, NoData, NoReason))

SpecAttempt == Init /\ [][AttemptNext]_vars

StartReturned(value) == {e \in Done("return") : e.call = "start" /\ e.from = value}

\* C24: the step in which start() returns false leaves the detector not newly
\* enabled, schedules no timer, starts no calibration session and leaves the
\* application state alone; and whatever enables the detector, schedules its
\* timer or starts a calibration session is a start() that returns true.
C24_FailedStartEngagesNothing ==
    [][/\ StartReturned("false")' # {} =>
            /\ detector'.isEnabled = detector.isEnabled
            /\ intervals' = intervals
            /\ detector'.calibrating = detector.calibrating
            /\ detector'.calibrationSamples = detector.calibrationSamples
            /\ currentState' = currentState
            /\ rets' = <<>>
       /\ \/ detector'.isEnabled /\ ~detector.isEnabled
          \/ Len(intervals') > Len(intervals)
          \/ detector'.calibrating /\ ~detector.calibrating
          => StartReturned("true")' # {}]_vars

\* a start() that failed for want of a device, the permission being granted
C24_FailedWithoutDevice ==
    /\ Idle /\ StartReturned("false") # {} /\ Published(AudioError) # {}
    /\ detector.permissionGranted /\ ~detector.isEnabled
    /\ currentState = READY /\ intervals = <<>>

\* the same of the AudioProcessor: the step in which startCapture() returns false
\* leaves it not running, with no frame or timer requested and not calibrating
C24_FailedCaptureEngagesNothing ==
    [][{e \in Done("return")' : e.call = "startCapture" /\ e.from = "false"} # {} =>
          /\ processor'.isRunning = processor.isRunning
          /\ processor'.calibrationInProgress = processor.calibrationInProgress
          /\ timers' = timers]_vars

C24_FailedCapture ==
    /\ {e \in Done("return") : e.call = "startCapture" /\ e.from = "false"} # {}
    /\ Published(AudioProcessorError) # {} /\ ~processor.isRunning

\* the start() calls that have failed and are about to return false
FailedStarts == {n \in DOMAIN starts : ~starts[n].ok}

ErrorTypes == {"unsupported", "permission-denied", "no-device"}

\* C25: the step in which a start() fails (it learns that the API is missing or
\* that the permission is refused, or its request for the stream is rejected)
\* publishes audio-error with a type among unsupported, permission-denied and
\* no-device, and leaves no start() of its own making behind.
C25_FailurePublishesTypedError ==
    [][\/ Cardinality(FailedStarts') > Cardinality(FailedStarts)
       \/ /\ StartReturned("false")' # {}
          /\ Cardinality(FailedStarts') = Cardinality(FailedStarts)
       => /\ \E p \in Published(AudioError)' : p.to \in ErrorTypes
          /\ Len(starts') <= Len(starts) + 1]_vars

\* what the detector does publish when a start() fails
C25_FailurePublishesSomething ==
    [][\/ Cardinality(FailedStarts') > Cardinality(FailedStarts)
       \/ /\ StartReturned("false")' # {}
          /\ Cardinality(FailedStarts') = Cardinality(FailedStarts)
       => /\ \/ \E p \in Published(AudioError)' : p.to \in {"unsupported", "stream"}
             \/ Published(MicrophonePermissionBlocked)' # {}
          /\ \A n \in DOMAIN starts' : starts'[n].ok => n \in DOMAIN starts]_vars

C25_RefusedWithoutError ==
    /\ FailedStarts # {} /\ Published(MicrophonePermissionBlocked) # {}
    /\ Published(AudioError) = {}

C25_NoDeviceAsStream ==
    /\ StartReturned("false") # {}
    /\ \E p \in Published(AudioError) : p.to = "stream"

-----------------------------------------------------------------------------
(* Claims about failing ticks *)

\* The analysis loop of the AudioProcessor with frames in which reading or
\* analysing the data fails
AnalysisNext ==
    \/ CallStartCapture(TRUE)
    \/ \E n \in DOMAIN starts, answer \in {"stream", "denied", "-"},
          rms \in ProcessorVolumes :
          ResumeCapture(n, answer, rms)
    \/ \E n \in DOMAIN timers, rms \in ProcessorVolumes : Frame(n, rms)
    \/ \E n \in DOMAIN timers : FailedFrame(n)
    \/ \E n \in DOMAIN timers : Timeout(n)
    \/ used.stops = 0 /\ CallStopCapture
    \/ clock <= CooldownTime /\ Advance

SpecAnalysis == Init /\ [][AnalysisNext]_vars

\* C26: a frame of the AudioProcessor in which reading or analysing the data
\* fails halts the loop (the processor is not running and no frame is requested),
\* publishes audio-error, lets nothing escape the frame and leaves the state
\* machine alone.
C26_FailedFrameHaltsAndReports ==
    [][Done("caught")' # {} =>
          /\ ~processor'.isRunning
          /\ \A n \in DOMAIN timers' : timers'[n] # "analyse"
          /\ Published(AudioError)' # {}
          /\ Done("uncaught")' = {}
          /\ currentState' = currentState /\ rets' = <<>>]_vars

\* what the frame does: the same with audio-processor-error for audio-error
C26_FailedFrameHalts ==
    [][Done("caught")' # {} =>
          /\ ~processor'.isRunning
          /\ \A n \in DOMAIN timers' : timers'[n] # "analyse"
          /\ \E p \in Published(AudioProcessorError)' : p.to = "analysis"
          /\ Published(AudioError)' = {}
          /\ Done("uncaught")' = {}
          /\ currentState' = currentState /\ rets' = <<>>]_vars

C26_FrameFailed == Done("caught") # {} /\ Published(AudioProcessorError) # {}

\* the same of a tick of the BrowserAudioDetector: its timer is cleared and
\* nothing escapes the tick
C26_FailedTickHalts ==
    [][Done("uncaught")' # {} \/ Done("caught")' # {} =>
          /\ \A id \in DOMAIN intervals' : ~intervals'[id]
          /\ Published(AudioError)' # {}
          /\ Done("uncaught")' = {}]_vars

C26_TickEscaped ==
    /\ Done("uncaught") # {} /\ Published(AudioError) = {}
    /\ \E id \in DOMAIN intervals : intervals[id]

-----------------------------------------------------------------------------
(* Claims about the values computed by the detector *)

\* the volumes of the calibration samples, 0.01 to 0.06
SampleLevels == {10 * k : k \in 1..6}

\* the detector constructed with config.calibrationDuration = n (lines 57-58)
InitCalibration ==
    /\ subscribers = <<>>
    /\ stats = [totalEvents |-> 0, eventCounts |-> [e \in AllEvents |-> 0],
                peakListenerCount |-> 0, activeSubscriptions |-> 0]
    /\ stack = <<>>
    /\ currentState = INITIALIZING
    /\ previousState = Null
    /\ stateData = NoData
    /\ stateHistory = <<[from |-> Null, to |-> INITIALIZING,
                         reason |-> <<"", "initialization">>, data |-> NoData]>>
    /\ settings = Unset
    /\ log = <<>>
    /\ rets = <<>>
    /\ dones = <<>>
    /\ nextId = 0
    /\ gone = {}
    /\ recorded = stateHistory
    /\ fired = 0
    /\ \E n \in 1..MaxSamples : detector = [Detector0 EXCEPT !.calibrationDuration = n]
    /\ intervals = <<>>
    /\ starts = <<>>
    /\ clock = 0
    /\ stopped = FALSE
    /\ processor = Processor0
    /\ timers = <<>>
    /\ used = [ticks |-> 0, starts |-> 0, stops |-> 0, calls |-> 0]
    /\ ops = 0

\* a tick of the timer during the calibration session
SampleTick(id, rms) ==
    /\ id \in DOMAIN intervals
    /\ intervals[id]
    /\ detector.calibrating
    /\ CallCounted("ticks", <<[IDo("update") EXCEPT !.rms = rms]>>)

\* One calibration session of every target count up to MaxSamples, over every
\* sequence of sample volumes
CalibrationNext ==
    \/ used.starts = 0 /\ CallStart(TRUE)
    \/ \E n \in DOMAIN starts, answer \in {"granted", "stream", "denied", "-"} :
          ResumeStart(n, answer)
    \/ \E id \in DOMAIN intervals, rms \in SampleLevels : SampleTick(id, rms)

SpecCalibration == InitCalibration /\ [][CalibrationNext]_vars

\* x is the element at index k (counting from 0) of q sorted ascending
IsAtRank(x, q, k) ==
    /\ x \in Range(q)
    /\ Cardinality({j \in DOMAIN q : q[j] < x}) <= k
    /\ Cardinality({j \in DOMAIN q : q[j] <= x}) > k

\* C27: the tick that brings the number of samples to the target count n sets
\* the baseline to the element at index floor(n/2) of the sorted samples plus
\* the margin of 0.01.
C27_BaselineIsMedianPlusMargin ==
    [][/\ detector.calibrating
       /\ Len(detector.calibrationSamples) < detector.calibrationDuration
       /\ Len(detector'.calibrationSamples) = detector.calibrationDuration
       => /\ ~detector'.calibrating
          /\ IsAtRank(detector'.baselineVolume - 10, detector'.calibrationSamples,
                      detector.calibrationDuration \div 2)]_vars

\* the samples 0.01 to 0.06 in some order have given the baseline 0.05
C27_SixSamples ==
    /\ Len(detector.calibrationSamples) = 6 /\ detector.calibrationDuration = 6
    /\ Range(detector.calibrationSamples) = SampleLevels
    /\ detector.calibrationSamples # <<10, 20, 30, 40, 50, 60>>
    /\ ~detector.calibrating /\ detector.baselineVolume = 50

\* the values given to setThreshold, in thousandths: a grid over [-0.1, 1.1] and
\* the neighbours of the ends and of the breakpoint
Sensitivities == {20 * k : k \in -5..55} \cup {1, 299, 301, 999}

\* setThreshold called with one value after another
ThresholdNext == \E value \in Sensitivities : CallSetThreshold(value)

SpecThreshold == Init /\ [][ThresholdNext]_vars

\* C28: setThreshold maps 0 to 0.01, 0.3 to 0.05 and 1 to 0.3, the threshold it
\* sets is within [0.01, 0.3], and of two calls with values of [0, 1] the one
\* with the larger value sets the larger or the same threshold.
C28_ThresholdScale ==
    [][\A e \in Done("set")' :
          /\ detector'.threshold >= 10 /\ detector'.threshold <= 300
          /\ e.value = 0 => detector'.threshold = 10
          /\ e.value = 300 => detector'.threshold = 50
          /\ e.value = 1000 => detector'.threshold = 300
          /\ \A d \in Done("set") :
                /\ d.value >= 0 /\ e.value <= 1000
                /\ d.value <= e.value
                => detector.threshold <= detector'.threshold]_vars

\* a second value has been set, one above the breakpoint: 0.32 gives 0.057
C28_AcrossBreakpoint ==
    /\ used.calls = 2 /\ detector.threshold = 57
    /\ \E e \in Done("set") : e.value = 320

\* the bytes getByteTimeDomainData may leave in the buffer: the ends of the
\* range, the middle and its neighbours, and a quarter
Bytes == {0, 64, 127, 128, 129, 255}

Buffers == UNION {[1..n -> Bytes] : n \in 1..MaxBuffer}

\* a tick of the timer during calibration, with the buffer the analyser filled
BufferTick(id, dataArray) == SampleTick(id, calculateRMSLevel(dataArray))

\* A calibration session whose samples are the RMS of every buffer
BuffersNext ==
    \/ used.starts = 0 /\ CallStart(TRUE)
    \/ \E n \in DOMAIN starts, answer \in {"granted", "stream", "denied", "-"} :
          ResumeStart(n, answer)
    \/ \E id \in DOMAIN intervals, dataArray \in Buffers : BufferTick(id, dataArray)

SpecBuffers == Init /\ [][BuffersNext]_vars

\* C29: every sample, the RMS of a buffer of bytes, lies between 0 and 1.
C29_RmsWithinUnit ==
    \A j \in DOMAIN detector.calibrationSamples :
        /\ detector.calibrationSamples[j] >= 0
        /\ detector.calibrationSamples[j] <= 1000

\* the extremes have been sampled: a buffer of 0 bytes (RMS 1) and one of 128 (RMS 0)
C29_Extremes == detector.calibrationSamples \in {<<1000, 0>>, <<0, 1000>>}

-----------------------------------------------------------------------------
(* Claims about the transition table *)

\* the targets transition() accepts in state cur
AcceptedTargets(cur) == {s \in AppStates : canTransitionTo(cur, s)}

\* the states one or more accepted transitions lead to from cur
ReachableFrom(cur) ==
    LET RECURSIVE Grow(_)
        Grow(T) ==
            LET N == T \cup UNION {AcceptedTargets(t) : t \in T}
            IN IF N = T THEN T ELSE Grow(N)
    IN Grow(AcceptedTargets(cur))

\* The state machine driven through its table: transition() and forceState() with
\* every target, nothing subscribed
TableNext ==
    \/ /\ ops < MaxCalls
       /\ \E s \in AppStates, a \in Args : CallTransition(s, a[1], a[2])
       /\ ops' = ops + 1
    \/ /\ ops < MaxCalls
       /\ \E s \in AppStates : CallForceState(s, "d0", "forced")
       /\ ops' = ops + 1

SpecTable == Init /\ [][TableNext]_vars

\* C30: the state machine starts in Initializing, and in every state it comes to
\* some transition target is accepted, Ready can be reached by accepted
\* transitions, and in Error both Initializing and Ready are accepted.
C30_NoDeadEnd ==
    /\ recorded[1].to = INITIALIZING /\ recorded[1].from = Null
    /\ Len(recorded) = 1 => currentState = INITIALIZING
    /\ AcceptedTargets(currentState) # {}
    /\ READY \in ReachableFrom(currentState)
    /\ currentState = ERROR => {INITIALIZING, READY} \subseteq AcceptedTargets(ERROR)

\* Error was entered and left again for Ready by an accepted transition
C30_LeftError ==
    /\ Idle /\ currentState = READY /\ previousState = ERROR
    /\ \E r \in AcceptedCalls : r.old.cur = ERROR /\ r.s = READY

-----------------------------------------------------------------------------
(* Further claims about the EventBus *)

\* C31: an emit of an event without subscribers invokes no callback, throws
\* nothing, leaves the subscriber map as it is and adds one to totalEvents and to
\* the count of the event.
C31_EmitWithoutSubscribers ==
    [][\A ev \in BusEvents :
          ~Has(St, ev) /\ CallEmit(ev) =>
             /\ subscribers' = subscribers
             /\ stats'.totalEvents = stats.totalEvents + 1
             /\ stats'.eventCounts[ev] = stats.eventCounts[ev] + 1
             /\ \A e \in AllEvents \ {ev} : stats'.eventCounts[e] = stats.eventCounts[e]
             /\ stats'.activeSubscriptions = stats.activeSubscriptions
             /\ Done("callback")' = {}
             /\ stack' = <<>>
             /\ \A d \in Range(dones') : d.invoked = <<>> /\ ~d.threw]_vars

\* an event without subscribers has been emitted for the second time
C31_EmittedTwiceToNobody ==
    /\ Idle /\ DOMAIN subscribers = {}
    /\ \E d \in Range(dones) : /\ ~Has(St, d.ev) /\ d.snap = <<>>
                               /\ stats.eventCounts[d.ev] = 2

-----------------------------------------------------------------------------
(* Further claims about the BrowserAudioDetector and the AudioProcessor *)

\* C32: a tick outside calibration publishes sound-detected exactly when more
\* than the cooldown has passed since the last trigger and the volume change
\* exceeds the threshold, or the relative volume exceeds three times the threshold
\* with a change above -0.01; the previous relative volume becomes that of the
\* tick either way.
C32_DetectionCondition ==
    [][\A id \in DOMAIN intervals, rms \in Volumes :
         /\ Tick(id, rms)
         /\ detector.isEnabled /\ detector.isSetup /\ ~detector.calibrating
         => LET relativeVolume == IF rms > detector.baselineVolume
                                  THEN rms - detector.baselineVolume ELSE 0
                volumeChange == relativeVolume - detector.prevVolume
                fires == /\ clock - detector.lastTriggerTime > detector.cooldownTime
                         /\ \/ volumeChange > detector.threshold
                            \/ /\ relativeVolume > 3 * detector.threshold
                               /\ volumeChange > -10
            IN /\ fires => Triggers' = Triggers + 1
               /\ ~fires => Triggers' = Triggers
               /\ detector'.prevVolume = relativeVolume]_vars

\* a sustained loud volume has fired: the tick found the relative volume it left
C32_SustainedFired ==
    /\ Published(SoundDetected) # {}
    /\ \E e \in DetectionTicks : e.config.prevVolume = detector.prevVolume
    /\ detector.prevVolume > 3 * detector.threshold

\* C33: a frame of the AudioProcessor that finds a calibration session in
\* progress appends its volume, and nothing else, to the samples of the session,
\* inside a detection cooldown as well as outside.
C33_EveryFrameSampled ==
    [][\A n \in DOMAIN timers, rms \in ProcessorVolumes :
         /\ Frame(n, rms)
         /\ processor.isRunning /\ processor.calibrationInProgress
         => processor'.calibrationSamples = Append(processor.calibrationSamples, rms)]_vars

\* the same outside the cooldown only, which is what detectSound does
C33_FrameSampledOutsideCooldown ==
    [][\A n \in DOMAIN timers, rms \in ProcessorVolumes :
         /\ Frame(n, rms)
         /\ processor.isRunning /\ processor.calibrationInProgress
         => processor'.calibrationSamples =
               IF /\ processor.isInCooldown
                  /\ clock - processor.lastDetectionTime < processor.detectionSettings.cooldownMs
               THEN processor.calibrationSamples
               ELSE Append(processor.calibrationSamples, rms)]_vars

\* a frame was analysed during a session and inside the cooldown: no sample
C33_FrameDropped ==
    /\ processor.calibrationInProgress /\ processor.isInCooldown
    /\ Done("sample") # {} /\ Done("collect") = {}

\* the same of the BrowserAudioDetector: every calibration tick appends its sample
C33_EveryTickSampled ==
    [][\A id \in DOMAIN intervals, rms \in Volumes :
         /\ Tick(id, rms)
         /\ detector.isEnabled /\ detector.isSetup /\ detector.calibrating
         => detector'.calibrationSamples = Append(detector.calibrationSamples, rms)]_vars

-----------------------------------------------------------------------------
(* Further claims about the StateMachine *)

\* the outermost call of the state machine that has just returned, if it changed
\* the state
Outermost == {r \in AcceptedCalls \cup ForcedCalls : r.id = 1}

\* C34: when an outermost transition() or forceState() that changed the state has
\* returned, the value stored under app.currentState is the current state.
C34_PersistedIsCurrent ==
    Idle => \A r \in Outermost : settings = currentState

\* the same when no subscriber called the state machine during the dispatch
C34_PersistedWhenAlone ==
    Idle => \A r \in Outermost : Alone(r) => settings = currentState /\ settings = r.s

\* a subscriber's transition was stored and then overwritten by the outer call
C34_StalePersisted ==
    /\ Idle /\ settings # currentState
    /\ \E r \in Outermost : ~Alone(r) /\ settings = r.s

\* what the callback h was handed for state-changed during the latest call, and
\* the state changes the call applied, both in order
DeliveredTo(h) ==
    SelectSeq(log, LAMBDA e : e.kind = "deliver" /\ e.ev = StateChanged /\ e.call = h)
Applied == SelectSeq(log, LAMBDA e : e.kind = "state")

\* C35: when a call of the state machine has returned, every subscriber of
\* state-changed has been handed the state changes in the order they were applied:
\* the targets it saw are the states the machine entered, in that order, and each
\* event's from is the to of the one before.
C35_DeliveredInOrder ==
    Idle /\ Has(St, StateChanged) =>
       \A h \in Range(subscribers[StateChanged]) :
          /\ Len(DeliveredTo(h)) = Len(Applied)
          /\ \A j \in 1..Len(Applied) : DeliveredTo(h)[j].to = Applied[j].to
          /\ \A j \in 2..Len(DeliveredTo(h)) : DeliveredTo(h)[j].from = DeliveredTo(h)[j - 1].to

\* the same for the calls during which no subscriber called the state machine
C35_DeliveredWhenAlone ==
    Idle /\ Has(St, StateChanged) /\ Len(Applied) <= 1 =>
       \A h \in Range(subscribers[StateChanged]) :
          /\ Len(DeliveredTo(h)) = Len(Applied)
          /\ \A j \in 1..Len(Applied) :
                DeliveredTo(h)[j].to = Applied[j].to /\ DeliveredTo(h)[j].from = Applied[j].from

\* a subscriber of state-changed called transition() during the dispatch, and the
\* subscriber after it was handed the later state change first
C35_Reversed ==
    /\ Idle /\ Has(St, StateChanged) /\ Len(Applied) = 2
    /\ DOMAIN subscribers = {StateChanged}
    /\ \A j \in 1..2 : Applied[j].call = "transition"
    /\ \E h \in Range(subscribers[StateChanged]) :
          /\ Len(DeliveredTo(h)) = 2
          /\ DeliveredTo(h)[1].to = Applied[2].to
          /\ DeliveredTo(h)[2].to = Applied[1].to
          /\ Applied[1].to # Applied[2].to

-----------------------------------------------------------------------------
(* Claims about the Start and Stop buttons *)

\* the DOMContentLoaded listener of the application: setupButtonEventListeners(),
\* then the transition to Ready
CallSetup ==
    /\ DOMAIN subscribers = {}
    /\ Call(<<IOn(StartButtonClicked, OnStartClicked), IOn(StopButtonClicked, OnStopClicked),
              ITransition(READY, NoData, NoReason)>>)

\* The application with its two buttons: set up, then clicked in any order, with
\* sketch.pause() called from outside
ButtonsNext ==
    \/ CallSetup /\ UNCHANGED ops
    \/ /\ ops < MaxOps
       /\ DOMAIN subscribers # {}
       /\ \E ev \in ButtonEvents : CallEmit(ev)
       /\ ops' = ops + 1
    \/ /\ ops < MaxOps
       /\ DOMAIN subscribers # {}
       /\ CallTransition(PAUSED, NoData, "")
       /\ ops' = ops + 1
    \/ Dispatch

SpecButtons == Init /\ [][ButtonsNext]_vars

\* the latest call was a click on the button of ev, made in the state s, and its
\* listener has returned
Clicked(ev, s) ==
    /\ Idle /\ log # <<>>
    /\ log[1].kind = "emit" /\ log[1].ev = ev
    /\ Applied # <<>> /\ Applied[1].from = s

Emitted(ev) == SelectSeq(log, LAMBDA e : e.kind = "emit" /\ e.ev = ev)

\* C36: a click on Start in Ready, or on Stop in Running, makes exactly one
\* accepted state change and one state-changed event, and no rejected
\* transition: state-transition-invalid is not published.
C36_OneChangePerClick ==
    Clicked(StartButtonClicked, READY) \/ Clicked(StopButtonClicked, RUNNING) =>
       /\ Len(Applied) = 1
       /\ Len(Emitted(StateChanged)) = 1
       /\ Emitted(StateTransitionInvalid) = <<>>

\* what the code does hold to: the one state change, and the one state-changed
C36_OneAcceptedPerClick ==
    Clicked(StartButtonClicked, READY) \/ Clicked(StopButtonClicked, RUNNING) =>
       /\ Len(Applied) = 1
       /\ Len(Emitted(StateChanged)) = 1
       /\ Applied[1].to = IF log[1].ev = StartButtonClicked THEN RUNNING ELSE READY
       /\ currentState = Applied[1].to

\* a click on Start in Ready has published state-transition-invalid
C36_StartRejectedOnce ==
    /\ Clicked(StartButtonClicked, READY)
    /\ Len(Emitted(StateTransitionInvalid)) = 1
    /\ Emitted(StateTransitionInvalid)[1].to = RUNNING

-----------------------------------------------------------------------------
(* Claims about the sampling loops *)

\* audioProcessor.startCapture() called again, while an earlier call is waiting for
\* the browser or after a stopCapture()
CaptureAttempt ==
    /\ used.starts < MaxAttempts
    /\ CallCounted("starts", <<[IDo("startCapture") EXCEPT !.val = TRUE]>>)

\* startCapture() and stopCapture() of one AudioProcessor in any order, the
\* browser answering and the frames running in between
LoopsNext ==
    \/ CaptureAttempt
    \/ \E n \in DOMAIN starts, answer \in {"stream", "denied", "-"} :
          ResumeCapture(n, answer, 500)
    \/ used.stops = 0 /\ CallStopCapture
    \/ \E n \in DOMAIN timers : Frame(n, 500)
    \/ \E n \in DOMAIN timers : Timeout(n)

SpecLoops == Init /\ [][LoopsNext]_vars

\* the running timers of the BrowserAudioDetector
Updates == {id \in DOMAIN intervals : intervals[id]}

\* C37: whatever start and stop calls were made on a processor, overlapping ones
\* too, at most one sampling loop is scheduled.
C37_AtMostOneLoop == Loops(timers) <= 1

\* the timer of the BrowserAudioDetector, which startUpdates() clears before it
\* sets a new one, is never doubled
C37_AtMostOneUpdate == Cardinality(Updates) <= 1 /\ (Updates # {} => Updates = {detector.updateInterval})

\* two startCapture() calls that overlapped have left two loops
C37_TwoLoopsAfterOverlap ==
    /\ Idle /\ used.starts = 2 /\ used.stops = 0 /\ starts = <<>>
    /\ Loops(timers) = 2
    /\ processor.isRunning

\* a startCapture() after stopCapture(), made before the pending frame ran, has
\* left two loops
C37_TwoLoopsAfterRestart ==
    /\ Idle /\ used.starts = 2 /\ used.stops = 1 /\ starts = <<>>
    /\ used.ticks >= 2
    /\ Loops(timers) = 2
    /\ processor.isRunning

-----------------------------------------------------------------------------
(* Claims about the end of a calibration session *)

\* the places in the log of the latest call where an outcome of a calibration
\* session was published
Outcomes ==
    {j \in DOMAIN log : /\ log[j].kind = "emit"
                        /\ log[j].ev \in {AudioCalibrationCompleted, AudioCalibrationFailed}}

\* C38: a calibration session ends with exactly one outcome event, completed or
\* failed and never both, and no audio-calibration-progress is published for the
\* session after its outcome.
C38_OneOutcome ==
    /\ Cardinality(Outcomes) <= 1
    /\ \A j \in Outcomes, k \in DOMAIN log :
          k > j => ~(log[k].kind = "emit" /\ log[k].ev = AudioCalibrationProgress)

\* what the code does hold to: a session that ends with samples publishes
\* audio-calibration-completed once and never audio-calibration-failed
C38_CompletedWithSamples ==
    Done("baseline") # {} =>
       /\ Len(Emitted(AudioCalibrationCompleted)) = 1
       /\ Emitted(AudioCalibrationFailed) = <<>>

\* a session of the AudioProcessor without samples has ended with both events
C38_FailedAndCompleted ==
    /\ Idle /\ ~processor.calibrationInProgress
    /\ Len(Emitted(AudioCalibrationFailed)) = 1
    /\ Len(Emitted(AudioCalibrationCompleted)) = 1

\* a session of the BrowserAudioDetector has published progress after completed
C38_ProgressAfterCompleted ==
    /\ Idle /\ ~detector.calibrating
    /\ \E j \in Outcomes :
          /\ log[j].ev = AudioCalibrationCompleted
          /\ \E k \in DOMAIN log : /\ k > j /\ log[k].kind = "emit"
                                   /\ log[k].ev = AudioCalibrationProgress

-----------------------------------------------------------------------------
(* Claims about the course of a calibration session *)

\* C39: a request to start calibration made while a session is in progress
\* neither restarts nor extends the session: as long as the session goes on, the
\* samples it has collected are kept and audio-calibration-started is not
\* published again.
C39_NoRestart ==
    [][/\ detector.calibrating /\ detector'.calibrating =>
             Len(detector'.calibrationSamples) >= Len(detector.calibrationSamples)
       /\ processor.calibrationInProgress /\ processor'.calibrationInProgress =>
             /\ Len(processor'.calibrationSamples) >= Len(processor.calibrationSamples)
             /\ Published(AudioCalibrationStarted)' \subseteq Published(AudioCalibrationStarted)
     ]_vars

\* what the AudioProcessor holds to: startCalibration() during a session changes
\* nothing and schedules no second finishCalibration()
C39_ProcessorIgnoresRequest ==
    [][processor.calibrationInProgress /\ CallCalibrate =>
          /\ processor' = processor
          /\ timers' = timers
          /\ log' = <<>>]_vars

\* every session of the AudioProcessor ends once the timers that are due have run:
\* while a session is in progress its finishCalibration() is scheduled, and
\* finishCalibration() ends the session
C39_ProcessorSessionDue ==
    processor.calibrationInProgress => \E n \in DOMAIN timers : timers[n] = "finishCalibration"
C39_TimeoutEndsSession ==
    [][\A n \in DOMAIN timers :
          timers[n] = "finishCalibration" /\ processor.calibrationInProgress /\ Timeout(n)
             => ~processor'.calibrationInProgress]_vars

\* a second start() has emptied the samples of the session in progress
C39_Restarted ==
    /\ Idle /\ detector.calibrating /\ used.starts = 2 /\ used.ticks > 0
    /\ detector.calibrationSamples = <<>>
    /\ Published(AudioCalibrationStarted) # {}

\* stop() during a session: the session is in progress and no tick is scheduled
C39_Stranded ==
    /\ Idle /\ detector.calibrating /\ stopped
    /\ starts = <<>> /\ Updates = {}
    /\ detector.calibrationSamples # <<>>

-----------------------------------------------------------------------------
(* Claims about the statistics of the EventBus *)

\* getEventNames(): the keys of the Map; getSubscriberCount(eventName): the size
\* of the event's Set, 0 without one
getEventNames == DOMAIN subscribers
getSubscriberCount(ev) == IF ev \in DOMAIN subscribers THEN Len(subscribers[ev]) ELSE 0

\* the sum of getSubscriberCount over the events
Registered ==
    LET RECURSIVE Total(_)
        Total(E) == IF E = {} THEN 0
                    ELSE LET ev == CHOOSE e \in E : TRUE
                         IN getSubscriberCount(ev) + Total(E \ {ev})
    IN Total(AllEvents)

\* C40: after any calls of on, once, off and emit, activeSubscriptions is the
\* number of registered (event, handler) pairs, the sum of getSubscriberCount over
\* the events, and getEventNames lists exactly the events with a handler.
C40_CountsAgree ==
    Idle =>
       /\ stats.activeSubscriptions = Registered
       /\ getEventNames = {ev \in AllEvents : getSubscriberCount(ev) >= 1}

\* what the code does hold to: getEventNames lists exactly the events with a
\* handler, and activeSubscriptions is never below the number of pairs
C40_EventNamesExact ==
    /\ getEventNames = {ev \in AllEvents : getSubscriberCount(ev) >= 1}
    /\ stats.activeSubscriptions >= Registered

\* on() with a callback that was subscribed already has counted it again
C40_CountedTwice ==
    /\ Idle /\ Registered = 1 /\ stats.activeSubscriptions = 2
    /\ getEventNames = {SoundDetected}
    /\ gone = {}

=============================================================================
